---- MODULE Spec2Model ----
(***************************************************************************)
(* Model of the signed-blob service: the gRPC service (api/v1/service.go), *)
(* the RSA-PSS signer (signature), the PostgreSQL storage adapter (store)  *)
(* and the command line client's put / get / get-public-key / verify       *)
(* commands (cmd/client/pkg).                                              *)
(*                                                                         *)
(* Cryptography is modelled symbolically: SHA-256 is an injective          *)
(* constructor (no collisions), an RSA-PSS signature is the tuple of the   *)
(* key that made it, the digest it was made over, its random salt and its  *)
(* PSS parameters, and rsa.VerifyPSS accepts exactly the signatures whose  *)
(* key, digest and parameters match.  Byte strings of the size the service *)
(* limits (256 KiB) are kept as runs Repeat(ch, n), as the repository's    *)
(* own tests build them (bytes.Repeat).                                    *)
(***************************************************************************)
EXTENDS Integers, Sequences, FiniteSets, TLC

VARIABLES
    signer,     \* RSASignerService{privateKey, publicKey}
    db,         \* rows of table signed_blobs (uuid is the primary key)
    receipts,   \* uuid returned by a successful StoreBlob -> blob submitted
    files,      \* the client's directory: file name -> content
    last,       \* the last completed request or command, with its outcome
    ping,       \* the NewPostgresStorage call of process start, with its pingWithRetry loop
    inflight    \* the requests being served concurrently: goroutine -> its position

vars == <<signer, db, receipts, files, last, ping, inflight>>

(***************************************************************************)
(* Bounds of the model.                                                    *)
(***************************************************************************)
MaxUUID == 2        \* uuid.New() draws from 1..MaxUUID

MaxRetryInterval == 2   \* retryInterval is one of 1..MaxRetryInterval time units

MaxReadyDuration == 3   \* maxReadyDuration is one of 1..MaxReadyDuration time units

MaxAttempts == 3        \* probes are counted up to MaxAttempts

(***************************************************************************)
(* Byte strings.  Repeat(ch, n) is bytes.Repeat([]byte(ch), n).            *)
(***************************************************************************)
Repeat(ch, n) == [ch |-> IF n = 0 THEN "" ELSE ch, n |-> n]

StrLen(s) == s.n

EmptyStr == Repeat("", 0)

\* we only allow blobs of size 256 Kilobytes
maxBlobSize == 256 * 1024

BlobChars == {"A"}

BlobLens == {0, maxBlobSize, maxBlobSize + 1}

Blobs == {Repeat(c, n) : c \in BlobChars, n \in BlobLens}

(***************************************************************************)
(* Errors are wrap chains, outermost format first (fmt.Errorf("...: %w")); *)
(* the nil error is the empty chain.  errors.Is looks for a sentinel       *)
(* anywhere in the chain.                                                  *)
(***************************************************************************)
Nil == <<>>

Wrap(msg, err) == <<msg>> \o err

ErrorsIs(err, target) == \E i \in 1..Len(err) : err[i] = target

ErrBlobNotFound == "blob not found"

ErrBlobExists == "blob already exists"

sqlErrNoRows == "sql: no rows in result set"

pqUniqueViolation == "pq: duplicate key value violates unique constraint"

pqInvalidUUID == "pq: invalid input syntax for type uuid"

pqValueTooLong == "pq: value too long for type character varying(64)"

pqUnavailable == "pq: connection refused"

(***************************************************************************)
(* crypto/sha256 and encoding/hex.                                         *)
(***************************************************************************)
sha256Size == 32

Sum256(msg) == [alg |-> "sha256", msg |-> msg]

DigestLen(d) == IF d.alg = "sha256" THEN sha256Size ELSE 0

HexEncodeToString(d) == [hex |-> d]

HexLen(h) == 2 * DigestLen(h.hex)

EmptyHex == [hex |-> [alg |-> "none", msg |-> EmptyStr]]

(***************************************************************************)
(* github.com/google/uuid.  A UUID value is a number; String() renders the *)
(* canonical 36 character form, Parse() also accepts the urn:uuid: form.   *)
(***************************************************************************)
UUIDs == 1..MaxUUID

InvalidUUID == 0

UUIDString(u) == "00000000-0000-4000-8000-00000000000" \o ToString(u)

UUIDForms(u) == {UUIDString(u), "urn:uuid:" \o UUIDString(u)}

\* a parser that takes any text for an identifier
UUIDParse_Lenient(s) ==
    IF \E u \in UUIDs : s \in UUIDForms(u)
    THEN CHOOSE u \in UUIDs : s \in UUIDForms(u)
    ELSE 1

UUIDParse(s) ==
    IF \E u \in UUIDs : s \in UUIDForms(u)
    THEN CHOOSE u \in UUIDs : s \in UUIDForms(u)
    ELSE InvalidUUID

(***************************************************************************)
(* time.Now().UTC().Format("2006-01-02T15:04:05Z"); the wall clock reads   *)
(* one of the seconds in Times.                                            *)
(***************************************************************************)
Times == {0, 1}

LaterTime == 2

FormatTime(t) == "1970-01-01T00:00:0" \o ToString(t) \o "Z"

(***************************************************************************)
(* blobv1.BlobRecord and proto.Marshal: the fields in field-number order,  *)
(* each with its tag and length-delimited value; a field holding the zero  *)
(* value (the empty string) is not emitted.                                *)
(***************************************************************************)
BlobRecord(uuid, blob, hash, timestamp) ==
    [Uuid |-> uuid, Blob |-> blob, Hash |-> hash, Timestamp |-> timestamp]

SignedBlobRecord(payload, sig) == [Payload |-> payload, Signature |-> sig]

ProtoField(num, val) == <<num, 2, val>>

OptField(num, val, empty) == IF val = empty THEN <<>> ELSE <<ProtoField(num, val)>>

\* a serialisation that leaves the timestamp out
Marshal_NoTimestamp(p) ==
    OptField(1, p.Uuid, "") \o OptField(2, p.Blob, EmptyStr)
        \o OptField(3, p.Hash, EmptyHex)

Marshal(p) ==
    OptField(1, p.Uuid, "") \o OptField(2, p.Blob, EmptyStr)
        \o OptField(3, p.Hash, EmptyHex) \o OptField(4, p.Timestamp, "")

(***************************************************************************)
(* crypto/rsa.  A key pair is named by its modulus N; the private key also *)
(* holds the private exponent D, which the public key does not; the nil    *)
(* key has N = 0.  SignPSS draws the salt from rand.Reader (rnd = 0: the reader    *)
(* fails).  VerifyPSS accepts a signature iff it was made with the private *)
(* key of the given public key, over the given digest, with the given      *)
(* hash and a salt of the length the options ask for.                      *)
(***************************************************************************)
KeyIds == {1, 2}

NilPrivateKey == [N |-> 0, D |-> 0]

NilPublicKey == [N |-> 0]

PrivateKey(k) == [N |-> k, D |-> 10 + k]

PublicKeyOf(priv) == [N |-> priv.N]

Salts == {1, 2}

RandOutcomes == {0} \cup Salts

rsaPSSOptions == [SaltLength |-> "EqualsHash", Hash |-> "SHA256"]

cryptoHash == "SHA256"

NoSignature ==
    [N |-> 0, digest |-> Sum256(<<>>), hash |-> "", saltLen |-> 0, salt |-> 0]

SigLen(sig) == IF sig = NoSignature THEN 0 ELSE 256

SignPSS(rnd, priv, hash, hashed, opts) ==
    IF rnd = 0
    THEN [sig |-> NoSignature, err |-> <<"crypto/rand: read failed">>]
    ELSE [sig |-> [N |-> priv.N, digest |-> hashed, hash |-> hash,
                   saltLen |-> IF opts.SaltLength = "EqualsHash"
                               THEN sha256Size ELSE 0,
                   salt |-> rnd],
          err |-> Nil]

VerifyPSS(pub, hash, hashed, sig, opts) ==
    IF /\ sig.N # 0
       /\ sig.N = pub.N
       /\ sig.digest = hashed
       /\ sig.hash = hash
       /\ opts.SaltLength = "EqualsHash" => sig.saltLen = sha256Size
    THEN Nil
    ELSE <<"crypto/rsa: verification error">>

(***************************************************************************)
(* signature.RSASignerService                                              *)
(***************************************************************************)
RSASignerService(privateKey, publicKey) ==
    [isNil |-> FALSE, privateKey |-> privateKey, publicKey |-> publicKey]

\* a construction that takes the public key from somewhere else
NewRSASignerServiceFromFile_OtherPublicKey(k) ==
    RSASignerService(PrivateKey(k), PublicKeyOf(PrivateKey((k % 2) + 1)))

NewRSASignerServiceFromFile(k) ==
    RSASignerService(PrivateKey(k), PublicKeyOf(PrivateKey(k)))

UninitialisedSigner == RSASignerService(NilPrivateKey, NilPublicKey)

\* (*RSASignerService)(nil)
NilSigner == [isNil |-> TRUE, privateKey |-> NilPrivateKey, publicKey |-> NilPublicKey]

\* a check that looks at the public key only
rSASignerServiceCheckInit_PublicKeyOnly(s) ==
    IF s.isNil THEN <<"RSASignerService has not been initialised properly">>
    ELSE IF s.publicKey = NilPublicKey
    THEN <<"signer service is not properly initialised with keys">>
    ELSE Nil

rSASignerServiceCheckInit(s) ==
    IF s.isNil THEN <<"RSASignerService has not been initialised properly">>
    ELSE IF s.privateKey = NilPrivateKey \/ s.publicKey = NilPublicKey
    THEN <<"signer service is not properly initialised with keys">>
    ELSE Nil

\* a signer that signs with the salt length left to rsa.SignPSS
Sign_SaltLengthAuto(s, blobContent, rnd) ==
    IF rSASignerServiceCheckInit(s) # Nil
    THEN [sig |-> NoSignature,
          err |-> Wrap("failed to sign content: %w", rSASignerServiceCheckInit(s))]
    ELSE IF Len(blobContent) = 0
    THEN [sig |-> NoSignature, err |-> <<"blob content cannot be nil or empty">>]
    ELSE LET hashed == Sum256(blobContent)
             r == SignPSS(rnd, s.privateKey, cryptoHash, hashed,
                          [SaltLength |-> "Auto", Hash |-> "SHA256"])
         IN  IF r.err # Nil
             THEN [sig |-> NoSignature,
                   err |-> Wrap("failed to sign blob content using RSASSA-PSS: %w", r.err)]
             ELSE [sig |-> r.sig, err |-> Nil]

\* a signer that drops the error of rsa.SignPSS
Sign_DropsError(s, blobContent, rnd) ==
    IF rSASignerServiceCheckInit(s) # Nil
    THEN [sig |-> SignPSS(rnd, s.privateKey, cryptoHash, Sum256(blobContent),
                          rsaPSSOptions).sig,
          err |-> Nil]
    ELSE IF Len(blobContent) = 0
    THEN [sig |-> NoSignature, err |-> <<"blob content cannot be nil or empty">>]
    ELSE [sig |-> SignPSS(rnd, s.privateKey, cryptoHash, Sum256(blobContent),
                          rsaPSSOptions).sig,
          err |-> Nil]

Sign(s, blobContent, rnd) ==
    IF rSASignerServiceCheckInit(s) # Nil
    THEN [sig |-> NoSignature,
          err |-> Wrap("failed to sign content: %w", rSASignerServiceCheckInit(s))]
    ELSE IF Len(blobContent) = 0
    THEN [sig |-> NoSignature, err |-> <<"blob content cannot be nil or empty">>]
    ELSE LET hashed == Sum256(blobContent)
             r == SignPSS(rnd, s.privateKey, cryptoHash, hashed, rsaPSSOptions)
         IN  IF r.err # Nil
             THEN [sig |-> NoSignature,
                   err |-> Wrap("failed to sign blob content using RSASSA-PSS: %w", r.err)]
             ELSE [sig |-> r.sig, err |-> Nil]

\* a hash that does not look at the content
ComputeHash_OfNothing(s, blobContent) == Sum256(EmptyStr)

ComputeHash(s, blobContent) == Sum256(blobContent)

\* a verification that drops the error of rsa.VerifyPSS
VerifySignature_DropsError(s, blobContent, sig) ==
    IF rSASignerServiceCheckInit(s) # Nil
    THEN Wrap("signature verification failed: %w", rSASignerServiceCheckInit(s))
    ELSE IF Len(blobContent) = 0
    THEN <<"blob content cannot be nil or empty">>
    ELSE IF SigLen(sig) = 0
    THEN <<"signature content cannot be nil or empty">>
    ELSE Nil

VerifySignature(s, blobContent, sig) ==
    IF rSASignerServiceCheckInit(s) # Nil
    THEN Wrap("signature verification failed: %w", rSASignerServiceCheckInit(s))
    ELSE IF Len(blobContent) = 0
    THEN <<"blob content cannot be nil or empty">>
    ELSE IF SigLen(sig) = 0
    THEN <<"signature content cannot be nil or empty">>
    ELSE LET hashed == Sum256(blobContent)
             err == VerifyPSS(s.publicKey, cryptoHash, hashed, sig, rsaPSSOptions)
         IN  IF err # Nil
             THEN Wrap("signature verification failed using RSASSA-PSS: %w", err)
             ELSE Nil

\* x509.MarshalPKIXPublicKey followed by pem.EncodeToMemory
PEMBlock(type, bytes) == [Type |-> type, Bytes |-> bytes]

MarshalPKIXPublicKey(pub) == [fmt |-> "PKIX", key |-> pub]

NoPEM == PEMBlock("", MarshalPKIXPublicKey(NilPublicKey))

\* x509.MarshalPKCS1PrivateKey
MarshalPKCS1PrivateKey(priv) == [fmt |-> "PKCS1", key |-> priv]

\* getPrivateKey is unexported and not part of the Signer interface
getPrivateKey(s) ==
    [pem |-> PEMBlock("RSA PRIVATE KEY", MarshalPKCS1PrivateKey(s.privateKey)),
     err |-> Nil]

\* a GetPublicKey that hands out what getPrivateKey encodes
SignerGetPublicKey_PrivateKeyPEM(s) ==
    IF s.isNil
    THEN [pem |-> NoPEM,
          err |-> <<"panic: runtime error: invalid memory address or nil pointer dereference">>]
    ELSE IF s.publicKey = NilPublicKey
    THEN [pem |-> NoPEM,
          err |-> <<"signer service is not properly initialised with keys">>]
    ELSE [pem |-> getPrivateKey(s).pem, err |-> Nil]

SignerGetPublicKey(s) ==
    IF s.isNil
    THEN [pem |-> NoPEM,
          err |-> <<"panic: runtime error: invalid memory address or nil pointer dereference">>]
    ELSE IF s.publicKey = NilPublicKey
    THEN [pem |-> NoPEM,
          err |-> <<"signer service is not properly initialised with keys">>]
    ELSE [pem |-> PEMBlock("PUBLIC KEY", MarshalPKIXPublicKey(s.publicKey)),
          err |-> Nil]

(***************************************************************************)
(* store.PostgresStorage over table signed_blobs                           *)
(*   uuid UUID PRIMARY KEY, blob TEXT, hash VARCHAR(64), timestamp TEXT,   *)
(*   signature BYTEA.                                                      *)
(* A statement either reaches the database ("ok") or fails on the way      *)
(* ("unavailable": connection refused, context deadline exceeded).         *)
(***************************************************************************)
DBOutcomes == {"ok", "unavailable"}

hashColumnWidth == 64

\* the uuid input function of the database: text -> UUID value
PgUUIDIn(s) ==
    IF \E u \in UUIDs : s \in {UUIDString(u), "{" \o UUIDString(u) \o "}"}
    THEN CHOOSE u \in UUIDs : s \in {UUIDString(u), "{" \o UUIDString(u) \o "}"}
    ELSE InvalidUUID

Row(u, blob, hash, timestamp, sig) ==
    [uuid |-> u, blob |-> blob, hash |-> hash, timestamp |-> timestamp,
     signature |-> sig]

RowsOf(tbl, u) == {r \in tbl : r.uuid = u}

\* an INSERT ... ON CONFLICT (uuid) DO UPDATE
InsertRow_Upsert(tbl, record, outcome) ==
    LET u == PgUUIDIn(record.Payload.Uuid)
    IN  IF outcome = "unavailable" THEN [db |-> tbl, err |-> <<pqUnavailable>>]
        ELSE IF u = InvalidUUID THEN [db |-> tbl, err |-> <<pqInvalidUUID>>]
        ELSE IF HexLen(record.Payload.Hash) > hashColumnWidth
        THEN [db |-> tbl, err |-> <<pqValueTooLong>>]
        ELSE [db |-> (tbl \ RowsOf(tbl, u))
                        \cup {Row(u, record.Payload.Blob, record.Payload.Hash,
                                  record.Payload.Timestamp, record.Signature)},
              err |-> Nil]

\* INSERT INTO signed_blobs (uuid, blob, hash, timestamp, signature) VALUES (...)
InsertRow(tbl, record, outcome) ==
    LET u == PgUUIDIn(record.Payload.Uuid)
    IN  IF outcome = "unavailable" THEN [db |-> tbl, err |-> <<pqUnavailable>>]
        ELSE IF u = InvalidUUID THEN [db |-> tbl, err |-> <<pqInvalidUUID>>]
        ELSE IF HexLen(record.Payload.Hash) > hashColumnWidth
        THEN [db |-> tbl, err |-> <<pqValueTooLong>>]
        ELSE IF RowsOf(tbl, u) # {}
        THEN [db |-> tbl, err |-> <<pqUniqueViolation>>]
        ELSE [db |-> tbl \cup {Row(u, record.Payload.Blob, record.Payload.Hash,
                                   record.Payload.Timestamp, record.Signature)},
              err |-> Nil]

\* a Store that reports success whatever the INSERT returned
StorageStore_IgnoresError(tbl, record, outcome) ==
    LET r == InsertRow(tbl, record, outcome)
    IN  [db |-> r.db, err |-> Nil, logs |-> <<>>]

\* a Store that tries the INSERT a second time when the first does not get through
StorageStore_Retries(tbl, record, outcome) ==
    LET first == InsertRow(tbl, record, outcome)
        r == IF first.err # Nil THEN InsertRow(tbl, record, "ok") ELSE first
    IN  [db |-> r.db, err |-> r.err,
         logs |-> IF r.err # Nil THEN <<"store: failed to store blob">> ELSE <<>>]

StorageStore(tbl, record, outcome) ==
    LET r == InsertRow(tbl, record, outcome)
    IN  [db |-> r.db, err |-> r.err,
         logs |-> IF r.err # Nil THEN <<"store: failed to store blob">> ELSE <<>>]

NoRecord == SignedBlobRecord(BlobRecord("", EmptyStr, EmptyHex, ""), NoSignature)

\* SELECT uuid, blob, hash, timestamp, signature FROM signed_blobs WHERE uuid = $1
SelectRow(tbl, u, outcome) ==
    IF outcome = "unavailable" THEN [record |-> NoRecord, err |-> <<pqUnavailable>>]
    ELSE IF RowsOf(tbl, u) = {} THEN [record |-> NoRecord, err |-> <<sqlErrNoRows>>]
    ELSE LET r == CHOOSE r \in RowsOf(tbl, u) : TRUE
         IN  [record |-> SignedBlobRecord(
                             BlobRecord(UUIDString(r.uuid), r.blob, r.hash, r.timestamp),
                             r.signature),
              err |-> Nil]

\* an adapter that hands sql.ErrNoRows through as it is
StorageGetByUUID_NoMapping(tbl, u, outcome) ==
    LET r == SelectRow(tbl, u, outcome)
    IN  IF r.err # Nil
        THEN [record |-> NoRecord, err |-> r.err,
              logs |-> <<"store: failed to retrieve blob">>]
        ELSE [record |-> r.record, err |-> Nil, logs |-> <<>>]

StorageGetByUUID(tbl, u, outcome) ==
    LET r == SelectRow(tbl, u, outcome)
    IN  IF r.err # Nil
        THEN [record |-> NoRecord,
              err |-> IF ErrorsIs(r.err, sqlErrNoRows) THEN <<ErrBlobNotFound>> ELSE r.err,
              logs |-> <<"store: failed to retrieve blob">>]
        ELSE [record |-> r.record, err |-> Nil, logs |-> <<>>]

\* SELECT EXISTS(SELECT 1 FROM signed_blobs WHERE uuid = $1), scanned into a bool
SelectExists(tbl, u, outcome) ==
    IF outcome = "unavailable" THEN [exists |-> FALSE, err |-> <<pqUnavailable>>]
    ELSE [exists |-> RowsOf(tbl, u) # {}, err |-> Nil]

\* Exists scans the column into a local and returns the literal true
StorageExists(tbl, u, outcome) ==
    LET scanned == SelectExists(tbl, u, outcome)
    IN  IF scanned.err # Nil
        THEN [exists |-> FALSE, err |-> scanned.err]
        ELSE [exists |-> TRUE, err |-> Nil]

\* DELETE FROM signed_blobs WHERE uuid = $1
DeleteRow(tbl, u, outcome) ==
    IF outcome = "unavailable"
    THEN [db |-> tbl, rowsAffected |-> 0, err |-> <<pqUnavailable>>]
    ELSE [db |-> tbl \ RowsOf(tbl, u), rowsAffected |-> Cardinality(RowsOf(tbl, u)),
          err |-> Nil]

\* a Delete that takes zero affected rows for success
StorageDelete_NoRowCheck(tbl, u, outcome) ==
    LET result == DeleteRow(tbl, u, outcome)
    IN  [db |-> result.db, err |-> result.err]

StorageDelete(tbl, u, outcome) ==
    LET result == DeleteRow(tbl, u, outcome)
    IN  IF result.err # Nil THEN [db |-> result.db, err |-> result.err]
        ELSE IF result.rowsAffected = 0 THEN [db |-> result.db, err |-> <<ErrBlobNotFound>>]
        ELSE [db |-> result.db, err |-> Nil]

(***************************************************************************)
(* v1.Service.  Each handler is a function of the request, the state it    *)
(* reads and the outcomes of the calls it makes; it yields the response,   *)
(* the error, the table afterwards, the calls it made in order and the     *)
(* error-level log entries it and the storage adapter wrote.               *)
(***************************************************************************)
NilStoreRequest == [isNil |-> TRUE, Blob |-> EmptyStr]

StoreBlobRequest(blob) == [isNil |-> FALSE, Blob |-> blob]

StoreBlobRequests == {NilStoreRequest} \cup {StoreBlobRequest(b) : b \in Blobs}

StoreResult(err, uuid, tbl, calls, logs, signed, stored) ==
    [err |-> err, Uuid |-> uuid, db |-> tbl, calls |-> calls, logs |-> logs,
     signed |-> signed, stored |-> stored]

\* a second construction of the record that forgets the timestamp
RecordWithSignature_NoTimestamp(uuidStr, blob, encodedHashStr, timestamp, sig) ==
    SignedBlobRecord(BlobRecord(uuidStr, blob, encodedHashStr, ""), sig)

\* a second construction of the record under an identifier of its own
RecordWithSignature_OtherUuid(uuidStr, blob, encodedHashStr, timestamp, sig) ==
    SignedBlobRecord(BlobRecord(IF uuidStr = UUIDString(1) THEN UUIDString(2)
                                ELSE UUIDString(1),
                                blob, encodedHashStr, timestamp), sig)

\* the record handed to Storage.Store
RecordWithSignature(uuidStr, blob, encodedHashStr, timestamp, sig) ==
    SignedBlobRecord(BlobRecord(uuidStr, blob, encodedHashStr, timestamp), sig)

\* a limit that already excludes content of exactly maxBlobSize bytes
SizeAllowed_Exclusive(blob) == StrLen(blob) < maxBlobSize

SizeAllowed(blob) == ~ (StrLen(blob) > maxBlobSize)

\* a validation that lets empty content through
ValidateStoreRequest_NoEmptyCheck(req) ==
    IF req.isNil THEN <<"request cannot be nil">>
    ELSE IF ~ SizeAllowed(req.Blob) THEN <<"blob content exceeds maximum size">>
    ELSE Nil

\* the checks StoreBlob makes on the request before it does any work
ValidateStoreRequest(req) ==
    IF req.isNil THEN <<"request cannot be nil">>
    ELSE IF req.Blob = EmptyStr THEN <<"blob content cannot be empty">>
    ELSE IF ~ SizeAllowed(req.Blob) THEN <<"blob content exceeds maximum size">>
    ELSE Nil

StoreBlob(s, tbl, req, newUUID, now, rnd, outcome) ==
    IF ValidateStoreRequest(req) # Nil
    THEN StoreResult(ValidateStoreRequest(req), "", tbl, <<>>, <<>>, <<>>, NoRecord)
    ELSE
    LET hash == ComputeHash(s, req.Blob)
    IN  IF DigestLen(hash) = 0
        THEN StoreResult(<<"failed to compute hash for blob content">>, "", tbl,
                         <<"signer.ComputeHash">>,
                         <<"service: failed to compute hash for blob content">>,
                         <<>>, NoRecord)
        ELSE
        LET encodedHashStr == HexEncodeToString(hash)
            uuidStr == UUIDString(newUUID)
            timestamp == FormatTime(now)
            payloadToBeSigned == BlobRecord(uuidStr, req.Blob, encodedHashStr, timestamp)
            serialisedPayload == Marshal(payloadToBeSigned)
            signed == Sign(s, serialisedPayload, rnd)
            calls == <<"signer.ComputeHash", "uuid.New", "time.Now", "proto.Marshal",
                       "signer.Sign">>
        IN  IF signed.err # Nil
            THEN StoreResult(Wrap("failed to sign payload: %w", signed.err), "", tbl, calls,
                             <<"service: failed to sign the payload">>,
                             serialisedPayload, NoRecord)
            ELSE
            LET recordWithSignature ==
                    RecordWithSignature(uuidStr, req.Blob, encodedHashStr, timestamp,
                                        signed.sig)
                st == StorageStore(tbl, recordWithSignature, outcome)
            IN  IF st.err # Nil
                THEN StoreResult(Wrap("failed to store signed record: %w", st.err), "",
                                 st.db, Append(calls, "store.Store"),
                                 st.logs \o <<"service: failed to store signed recored">>,
                                 serialisedPayload, recordWithSignature)
                ELSE StoreResult(Nil, uuidStr, st.db, Append(calls, "store.Store"),
                                 st.logs, serialisedPayload, recordWithSignature)

NilGetRequest == [isNil |-> TRUE, Uuid |-> ""]

GetSignedBlobRequest(uuid) == [isNil |-> FALSE, Uuid |-> uuid]

UuidInputs == {"", "invalid-uuid"} \cup UNION {UUIDForms(u) : u \in UUIDs}

GetSignedBlobRequests ==
    {NilGetRequest} \cup {GetSignedBlobRequest(u) : u \in UuidInputs}

GetResult(err, record, calls, logs) ==
    [err |-> err, Payload |-> record.Payload, Signature |-> record.Signature,
     calls |-> calls, logs |-> logs]

\* a response that leaves the timestamp out
GetSignedBlobResponse_NoTimestamp(blobRow) ==
    SignedBlobRecord(BlobRecord(blobRow.Payload.Uuid, blobRow.Payload.Blob,
                                blobRow.Payload.Hash, ""),
                     blobRow.Signature)

\* the response built from the row the storage returned
GetSignedBlobResponse(blobRow) ==
    SignedBlobRecord(BlobRecord(blobRow.Payload.Uuid, blobRow.Payload.Blob,
                                blobRow.Payload.Hash, blobRow.Payload.Timestamp),
                     blobRow.Signature)

GetSignedBlob(s, tbl, req, outcome) ==
    IF req.isNil
    THEN GetResult(<<"request cannot be nil">>, NoRecord, <<>>, <<>>)
    ELSE IF req.Uuid = ""
    THEN GetResult(<<"UUID cannot be empty">>, NoRecord, <<>>, <<>>)
    ELSE
    LET uuid == UUIDParse(req.Uuid)
    IN  IF uuid = InvalidUUID
        THEN GetResult(<<"invalid UUID format: %w", "invalid UUID length">>, NoRecord,
                       <<"uuid.Parse">>, <<"service: failed to parse UUID">>)
        ELSE
        LET got == StorageGetByUUID(tbl, uuid, outcome)
            calls == <<"uuid.Parse", "store.GetByUUID">>
        IN  IF got.err # Nil
            THEN IF ErrorsIs(got.err, ErrBlobNotFound)
                 THEN GetResult(Wrap("blob not found: %w", got.err), NoRecord, calls, got.logs)
                 ELSE GetResult(Wrap("failed to retrieve blob: %w", got.err), NoRecord, calls,
                                got.logs \o <<"service: failed to retrieve blob">>)
            ELSE IF SigLen(got.record.Signature) = 0
            THEN GetResult(<<"signature is empty">>, NoRecord, calls, got.logs)
            ELSE GetResult(Nil, GetSignedBlobResponse(got.record), calls, got.logs)

GetPublicKey(s) ==
    LET r == SignerGetPublicKey(s)
    IN  IF r.err # Nil
        THEN [err |-> Wrap("failed to retrieve public key: %w", r.err), PublicKey |-> NoPEM,
              calls |-> <<"signer.GetPublicKey">>,
              logs |-> <<"service: failed to retrieve public key">>]
        ELSE [err |-> Nil, PublicKey |-> r.pem, calls |-> <<"signer.GetPublicKey">>,
              logs |-> <<>>]

(***************************************************************************)
(* The command line client (cmd/client/pkg).  A file holds raw bytes (the  *)
(* blob), base64 text, a JSON document or a PEM block; text that is not    *)
(* base64 / JSON / PEM is kept as such, so that decoding can fail.         *)
(***************************************************************************)
\* encoding/base64
Base64Encode(sig) == [b64 |-> TRUE, sig |-> sig]

NotBase64 == [b64 |-> FALSE, sig |-> NoSignature]

Base64Decode(text) ==
    IF text.b64 THEN [sig |-> text.sig, err |-> Nil]
    ELSE [sig |-> NoSignature, err |-> <<"illegal base64 data">>]

\* metaData is the data associated with each blob.
MetaData(uuid, hash, timestamp) == [UUID |-> uuid, Hash |-> hash, TimeStamp |-> timestamp]

NoMetaData == MetaData("", EmptyHex, "")

\* encoding/json: the struct's members under their json tags
JSONMarshalIndent(m) ==
    [json |-> TRUE,
     members |-> << <<"uuid", m.UUID>>, <<"hash", m.Hash>>, <<"timestamp", m.TimeStamp>> >>]

NotJSON == [json |-> FALSE, members |-> <<>>]

JSONMember(doc, key, zero) ==
    IF \E i \in 1..Len(doc.members) : doc.members[i][1] = key
    THEN doc.members[CHOOSE i \in 1..Len(doc.members) : doc.members[i][1] = key][2]
    ELSE zero

JSONUnmarshal(doc) ==
    IF doc.json
    THEN [meta |-> MetaData(JSONMember(doc, "uuid", ""),
                            JSONMember(doc, "hash", EmptyHex),
                            JSONMember(doc, "timestamp", "")),
          err |-> Nil]
    ELSE [meta |-> NoMetaData, err |-> <<"invalid character">>]

\* encoding/pem and crypto/x509 on the client side
PEMFile(block) == [pem |-> TRUE, block |-> block]

NotPEM == [pem |-> FALSE, block |-> NoPEM]

ParsePKIXPublicKey(bytes) ==
    IF bytes.fmt = "PKIX" THEN [key |-> bytes.key, err |-> Nil]
    ELSE [key |-> NilPublicKey, err |-> <<"x509: failed to parse public key">>]

publicKeyPath == "./public.pem"

BlobFileName(blobUUID) == blobUUID \o ".txt"

SigFileName(blobUUID) == blobUUID \o ".sig"

MetaFileName(blobUUID) == blobUUID \o ".meta.json"

NoFiles == [f \in {} |-> NotJSON]

WriteFile(fs, name, content) == [f \in DOMAIN fs \cup {name} |->
                                    IF f = name THEN content ELSE fs[f]]

ClientArgs == {UUIDString(1), "invalid-uuid"}

\* put <filename>: b is the content of the file
putCommand(s, tbl, b, env) ==
    IF StrLen(b) = 0
    THEN [err |-> <<"file is empty, please provide a file with content">>,
          Uuid |-> "", db |-> tbl]
    ELSE LET resp == StoreBlob(s, tbl, StoreBlobRequest(b), env.newUUID, env.now,
                               env.rnd, env.outcome)
         IN  IF resp.err # Nil
             THEN [err |-> Wrap("error storing blob: %w", resp.err), Uuid |-> "",
                   db |-> resp.db]
             ELSE [err |-> Nil, Uuid |-> resp.Uuid, db |-> resp.db]

\* get-public-key: the key of the service's GetPublicKey response, written as is
getPublicKeyCommand(fs, rpc) ==
    IF rpc.err # Nil
    THEN [err |-> Wrap("unable to write file: %w", rpc.err), files |-> fs]
    ELSE [err |-> Nil, files |-> WriteFile(fs, publicKeyPath, PEMFile(rpc.PublicKey))]

\* a metadata file that leaves the timestamp out
GetMetaData_NoTimestamp(resp) == MetaData(resp.Payload.Uuid, resp.Payload.Hash, "")

\* the metadata the get command writes to <uuid>.meta.json
GetMetaData(resp) == MetaData(resp.Payload.Uuid, resp.Payload.Hash, resp.Payload.Timestamp)

\* get <uuid>: rpc is the outcome of the GetSignedBlob call it makes
getCommand(fs, blobUUID, rpc) ==
    IF UUIDParse(blobUUID) = InvalidUUID
    THEN [err |-> <<"invalid UUID format, please provide a valid UUID">>, files |-> fs,
          called |-> FALSE]
    ELSE IF rpc.err # Nil
    THEN [err |-> Wrap("unable to get blob: %w", rpc.err), files |-> fs, called |-> TRUE]
    ELSE
    LET f1 == WriteFile(fs, BlobFileName(blobUUID), rpc.Payload.Blob)
        sigB64 == Base64Encode(rpc.Signature)
        f2 == WriteFile(f1, SigFileName(blobUUID), sigB64)
        metaByte == JSONMarshalIndent(GetMetaData(rpc))
        f3 == WriteFile(f2, MetaFileName(blobUUID), metaByte)
    IN  [err |-> Nil, files |-> f3, called |-> TRUE]

NotRSAKey == [N |-> -1]

VerifyResult(err, steps, computedHash, meta, payloadBytes, sig) ==
    [err |-> err, steps |-> steps, computedHash |-> computedHash, meta |-> meta,
     payloadBytes |-> payloadBytes, sig |-> sig]

VerifyFail(err, steps) ==
    VerifyResult(err, steps, EmptyHex, NoMetaData, <<>>, NoSignature)

\* a verifier that rebuilds the record without the metadata's identifier
VerifyPayload_NoUuid(meta, blobBytes) == BlobRecord("", blobBytes, meta.Hash, meta.TimeStamp)

\* the record the verifier rebuilds from the metadata and the content file
VerifyPayload(meta, blobBytes) == BlobRecord(meta.UUID, blobBytes, meta.Hash, meta.TimeStamp)

\* a verifier that leaves the content hash to the signature check
HashMatches_Skipped(computedHash, metaHash) == TRUE

\* the comparison of the recomputed content hash with the metadata's
HashMatches(computedHash, metaHash) == computedHash = metaHash

\* a verifier that does not look at the outcome of the signature check
SignatureCheck_Ignored(rsaPubKey, payloadBytes, sig) == Nil

\* the RSASSA-PSS check of the signature over the rebuilt payload
SignatureCheck(rsaPubKey, payloadBytes, sig) ==
    VerifyPSS(rsaPubKey, "SHA256", Sum256(payloadBytes), sig, rsaPSSOptions)

\* verify <uuid> --public-key publicKeyPath
verifyCommand(fs, blobUUID) ==
    LET metaFile == MetaFileName(blobUUID)
        sigFile == SigFileName(blobUUID)
        blobFile == BlobFileName(blobUUID)
    IN
    IF metaFile \notin DOMAIN fs
    THEN VerifyFail(<<"failed to read metadata: %w", "no such file or directory">>, <<>>)
    ELSE
    LET parsed == JSONUnmarshal(fs[metaFile])
        meta == parsed.meta
        s1 == <<"json.Unmarshal">>
    IN
    IF parsed.err # Nil
    THEN VerifyFail(Wrap("failed to parse metadata: %w", parsed.err), s1)
    ELSE IF blobFile \notin DOMAIN fs
    THEN VerifyFail(<<"failed to read blob content: %w", "no such file or directory">>, s1)
    ELSE IF sigFile \notin DOMAIN fs
    THEN VerifyFail(<<"failed to read signature: %w", "no such file or directory">>, s1)
    ELSE
    LET blobBytes == fs[blobFile]
        decoded == Base64Decode(fs[sigFile])
        s2 == Append(s1, "base64.DecodeString")
    IN
    IF decoded.err # Nil
    THEN VerifyFail(Wrap("invalid base64 in signature file: %w", decoded.err), s2)
    ELSE
    LET hash == Sum256(blobBytes)
        computedHash == HexEncodeToString(hash)
        s3 == Append(s2, "sha256.Sum256(blob)")
    IN
    IF ~ HashMatches(computedHash, meta.Hash)
    THEN VerifyResult(<<"hash mismatch!">>, s3, computedHash, meta, <<>>, decoded.sig)
    ELSE
    LET payloadBytes == Marshal(VerifyPayload(meta, blobBytes))
        s4 == Append(s3, "proto.Marshal")
    IN
    IF publicKeyPath \notin DOMAIN fs
    THEN VerifyResult(<<"failed to read public key: %w", "no such file or directory">>, s4,
                      computedHash, meta, payloadBytes, decoded.sig)
    ELSE
    LET pubBytes == fs[publicKeyPath]
        s5 == s4 \o <<"os.ReadFile(public-key)", "pem.Decode">>
    IN
    IF ~ pubBytes.pem \/ pubBytes.block.Type # "PUBLIC KEY"
    THEN VerifyResult(<<"invalid PEM format for public key">>, s5, computedHash, meta,
                      payloadBytes, decoded.sig)
    ELSE
    LET pubInterface == ParsePKIXPublicKey(pubBytes.block.Bytes)
        s6 == Append(s5, "x509.ParsePKIXPublicKey")
    IN
    IF pubInterface.err # Nil
    THEN VerifyResult(Wrap("failed to parse public key: %w", pubInterface.err), s6,
                      computedHash, meta, payloadBytes, decoded.sig)
    ELSE IF pubInterface.key = NotRSAKey
    THEN VerifyResult(<<"fatal: public key is not RSA, We use RSAPSS">>, s6,
                      computedHash, meta, payloadBytes, decoded.sig)
    ELSE
    LET err == SignatureCheck(pubInterface.key, payloadBytes, decoded.sig)
        s7 == Append(s6, "rsa.VerifyPSS")
    IN
    IF err # Nil
    THEN VerifyResult(Wrap("signature verification failed: %v", err), s7, computedHash, meta,
                      payloadBytes, decoded.sig)
    ELSE VerifyResult(Nil, s7, computedHash, meta, payloadBytes, decoded.sig)

(***************************************************************************)
(* What may have happened to the downloaded files between get and verify:  *)
(* nothing, or one artifact was replaced, damaged or removed.              *)
(***************************************************************************)
OtherBlob(b) == Repeat("B", StrLen(b))

OtherUUID(s) == IF s = UUIDString(1) THEN UUIDString(2) ELSE UUIDString(1)

OtherKeyBytes == MarshalPKIXPublicKey(PublicKeyOf(PrivateKey(2)))

NotRSAKeyBytes == MarshalPKIXPublicKey(NotRSAKey)

CorruptSignature(sig) == [sig EXCEPT !.N = 0]

Tampers ==
    {"none", "content", "content+hash", "uuid", "hash", "timestamp",
     "sig-corrupt", "sig-notbase64", "meta-notjson", "meta-nohash",
     "key-other", "key-notpem", "key-type", "key-notpkix", "key-notrsa",
     "rm-sig"}

SetMember(doc, key, val) ==
    [doc EXCEPT !.members = [i \in 1..Len(doc.members) |->
        IF doc.members[i][1] = key THEN <<key, val>> ELSE doc.members[i]]]

DropMember(doc, key) ==
    [doc EXCEPT !.members = SelectSeq(doc.members, LAMBDA m : m[1] # key)]

Without(fs, name) == [f \in DOMAIN fs \ {name} |-> fs[f]]

Tamper(fs, blobUUID, t) ==
    LET txt == BlobFileName(blobUUID)
        sig == SigFileName(blobUUID)
        meta == MetaFileName(blobUUID)
        has(f) == f \in DOMAIN fs
        keyBlock(type, bytes) == WriteFile(fs, publicKeyPath, PEMFile(PEMBlock(type, bytes)))
    IN
    CASE t = "content" /\ has(txt) -> WriteFile(fs, txt, OtherBlob(fs[txt]))
      [] t = "content+hash" /\ has(txt) /\ has(meta) ->
            WriteFile(WriteFile(fs, txt, OtherBlob(fs[txt])), meta,
                      SetMember(fs[meta], "hash",
                                HexEncodeToString(Sum256(OtherBlob(fs[txt])))))
      [] t = "uuid" /\ has(meta) ->
            WriteFile(fs, meta, SetMember(fs[meta], "uuid",
                                          OtherUUID(JSONMember(fs[meta], "uuid", ""))))
      [] t = "hash" /\ has(meta) /\ has(txt) ->
            WriteFile(fs, meta, SetMember(fs[meta], "hash",
                                HexEncodeToString(Sum256(OtherBlob(fs[txt])))))
      [] t = "timestamp" /\ has(meta) ->
            WriteFile(fs, meta, SetMember(fs[meta], "timestamp", FormatTime(LaterTime)))
      [] t = "sig-corrupt" /\ has(sig) ->
            WriteFile(fs, sig, Base64Encode(CorruptSignature(fs[sig].sig)))
      [] t = "sig-notbase64" /\ has(sig) -> WriteFile(fs, sig, NotBase64)
      [] t = "meta-notjson" /\ has(meta) -> WriteFile(fs, meta, NotJSON)
      [] t = "meta-nohash" /\ has(meta) -> WriteFile(fs, meta, DropMember(fs[meta], "hash"))
      [] t = "key-other" /\ has(publicKeyPath) ->
            keyBlock("PUBLIC KEY", OtherKeyBytes)
      [] t = "key-notpem" /\ has(publicKeyPath) -> WriteFile(fs, publicKeyPath, NotPEM)
      [] t = "key-type" /\ has(publicKeyPath) ->
            keyBlock("RSA PUBLIC KEY", fs[publicKeyPath].block.Bytes)
      [] t = "key-notpkix" /\ has(publicKeyPath) ->
            keyBlock("PUBLIC KEY", [fmt |-> "PKCS1", key |-> fs[publicKeyPath].block.Bytes.key])
      [] t = "key-notrsa" /\ has(publicKeyPath) ->
            keyBlock("PUBLIC KEY", NotRSAKeyBytes)
      [] t = "rm-sig" /\ has(sig) -> Without(fs, sig)
      [] OTHER -> fs

(***************************************************************************)
(* store.NewPostgresStorage and pingWithRetry.  Time is counted in units:  *)
(* remaining is what is left of the context's timeout (0: ctx.Done() is    *)
(* ready), untilTick what is left until the ticker fires next; the         *)
(* ticker's channel holds at most one tick.  The goroutine can be late, so *)
(* time can pass while a case of the select is ready, and when both cases  *)
(* are ready the select takes either.                                      *)
(***************************************************************************)
RetryIntervals == 1..MaxRetryInterval

ReadyDurations == 1..MaxReadyDuration

ctxDeadlineExceeded == "context deadline exceeded"

ProbeOutcomes == {"alive", "refused"}

PingState(pc, args, remaining, untilTick, tick, attempts, probe, ret) ==
    [pc |-> pc, args |-> args, remaining |-> remaining, untilTick |-> untilTick,
     tick |-> tick, attempts |-> attempts, probe |-> probe, ret |-> ret]

PingArgs(dsn, logNil, retryInterval, maxReadyDuration) ==
    [dsn |-> dsn, logNil |-> logNil, retryInterval |-> retryInterval,
     maxReadyDuration |-> maxReadyDuration]

NoReturn == [storage |-> FALSE, err |-> Nil, logs |-> <<>>]

ReturnStorage == [storage |-> TRUE, err |-> Nil, logs |-> <<>>]

ReturnError(err, logs) == [storage |-> FALSE, err |-> err, logs |-> logs]

\* the process of the other specifications: storage constructed, nothing running
StorageReady == PingState("returned", PingArgs("postgres://", FALSE, 1, 1), 0, 0, FALSE, 1,
                          "ok", ReturnStorage)

(***************************************************************************)
(* The state machine.                                                      *)
(***************************************************************************)
NoReceipts == [u \in {} |-> EmptyStr]

\* the goroutines of the gRPC server that serve requests at the same time
Threads == {1, 2}

Idle == [pc |-> "idle"]

NoneInFlight == [t \in Threads |-> Idle]

Init ==
    /\ signer \in {NewRSASignerServiceFromFile(1), UninitialisedSigner}
    /\ db = {}
    /\ receipts = NoReceipts
    /\ files = NoFiles
    /\ last = [op |-> "none"]
    /\ ping = StorageReady
    /\ inflight = NoneInFlight

\* what a StoreBlob call can meet: the identifier uuid.New() draws, the
\* second time.Now() reads, what rand.Reader yields to SignPSS and whether
\* the INSERT reaches the database; a request rejected by validation meets
\* none of them, and the INSERT is not reached when signing fails
StoreEnv(newUUID, now, rnd, outcome) ==
    [newUUID |-> newUUID, now |-> now, rnd |-> rnd, outcome |-> outcome]

NoStoreEnv == {StoreEnv(1, 0, 0, "ok")}

AllStoreEnvs ==
    {StoreEnv(u, t, r, o) :
        u \in UUIDs, t \in Times, r \in RandOutcomes, o \in DBOutcomes}

StoreEnvs(s, req) ==
    IF ValidateStoreRequest(req) # Nil
    THEN NoStoreEnv
    ELSE {e \in AllStoreEnvs :
            e.outcome = "unavailable" =>
                e.rnd # 0 /\ rSASignerServiceCheckInit(s) = Nil}

StoreBlobAct ==
    \E req \in StoreBlobRequests :
      \E env \in StoreEnvs(signer, req) :
        \E r \in {StoreBlob(signer, db, req, env.newUUID, env.now, env.rnd,
                             env.outcome)} :
            /\ db' = r.db
            /\ receipts' = IF r.err = Nil
                           THEN [u \in DOMAIN receipts \cup {r.Uuid} |->
                                    IF u = r.Uuid THEN req.Blob ELSE receipts[u]]
                           ELSE receipts
            /\ last' = [op |-> "StoreBlob", req |-> req, env |-> env, err |-> r.err,
                        Uuid |-> r.Uuid, calls |-> r.calls, logs |-> r.logs,
                        signed |-> r.signed, stored |-> r.stored]
            /\ UNCHANGED <<inflight, ping, signer, files>>

\* whether the SELECT reaches the database; a request rejected before the
\* lookup does not meet the database at all
GetEnvs(req) ==
    IF req.isNil \/ UUIDParse(req.Uuid) = InvalidUUID THEN {"ok"} ELSE DBOutcomes

GetSignedBlobAct ==
    \E req \in GetSignedBlobRequests :
      \E outcome \in GetEnvs(req) :
        \E r \in {GetSignedBlob(signer, db, req, outcome)} :
            /\ last' = [op |-> "GetSignedBlob", req |-> req, err |-> r.err,
                        Payload |-> r.Payload, Signature |-> r.Signature,
                        calls |-> r.calls, logs |-> r.logs, outcome |-> outcome]
            /\ UNCHANGED <<inflight, ping, signer, db, receipts, files>>

GetPublicKeyAct ==
    \E r \in {GetPublicKey(signer)} :
        /\ last' = [op |-> "GetPublicKey", err |-> r.err, PublicKey |-> r.PublicKey,
                    calls |-> r.calls, logs |-> r.logs]
        /\ UNCHANGED <<inflight, ping, signer, db, receipts, files>>

\* put <filename>: an empty file is refused before the call
ClientPutAct ==
    \E b \in Blobs :
      \E env \in IF b = EmptyStr THEN NoStoreEnv
                  ELSE StoreEnvs(signer, StoreBlobRequest(b)) :
        \E r \in {putCommand(signer, db, b, env)} :
            /\ db' = r.db
            /\ receipts' = IF r.err = Nil
                           THEN [u \in DOMAIN receipts \cup {r.Uuid} |->
                                    IF u = r.Uuid THEN b ELSE receipts[u]]
                           ELSE receipts
            /\ last' = [op |-> "client.put", req |-> b, err |-> r.err, Uuid |-> r.Uuid]
            /\ UNCHANGED <<inflight, ping, signer, files>>

ClientGetPublicKeyAct ==
    \E rpc \in {GetPublicKey(signer)} :
      \E r \in {getPublicKeyCommand(files, rpc)} :
        /\ files' = r.files
        /\ last' = [op |-> "client.get-public-key", err |-> r.err]
        /\ UNCHANGED <<inflight, ping, signer, db, receipts>>

ClientGetAct ==
    \E blobUUID \in ClientArgs :
      \E outcome \in GetEnvs(GetSignedBlobRequest(blobUUID)) :
      \E rpc \in {GetSignedBlob(signer, db, GetSignedBlobRequest(blobUUID), outcome)} :
        \E r \in {getCommand(files, blobUUID, rpc)} :
            /\ files' = r.files
            /\ last' = [op |-> "client.get", req |-> blobUUID, err |-> r.err]
            /\ UNCHANGED <<inflight, ping, signer, db, receipts>>

\* verify runs on the directory as it is then: the downloaded files, or the
\* downloaded files with one artifact altered since
ClientVerifyAct ==
    \E blobUUID \in ClientArgs, t \in Tampers :
      \E dir \in {Tamper(files, blobUUID, t)} :
        /\ t = "none" \/ dir # files
        /\ \E r \in {verifyCommand(dir, blobUUID)} :
            last' = [op |-> "client.verify", req |-> blobUUID, tamper |-> t,
                     dir |-> dir,
                     err |-> r.err, steps |-> r.steps,
                     computedHash |-> r.computedHash, meta |-> r.meta,
                     payloadBytes |-> r.payloadBytes, sig |-> r.sig]
        /\ UNCHANGED <<inflight, ping, signer, db, receipts, files>>

\* the three artifacts of a downloaded record, kept under the file names of
\* blobUUID
RenamedDownload(fs, blobUUID, rpc) ==
    LET f1 == WriteFile(fs, BlobFileName(blobUUID), rpc.Payload.Blob)
        f2 == WriteFile(f1, SigFileName(blobUUID), Base64Encode(rpc.Signature))
    IN  WriteFile(f2, MetaFileName(blobUUID), JSONMarshalIndent(GetMetaData(rpc)))

\* verify <uuid> on a directory where the files named after <uuid> are the
\* downloaded artifacts of another record of the service
ClientVerifyRenamedAct ==
    \E blobUUID \in ClientArgs, v \in UUIDs :
      \E rpc \in {GetSignedBlob(signer, db, GetSignedBlobRequest(UUIDString(v)), "ok")} :
        /\ rpc.err = Nil
        /\ UUIDString(v) # blobUUID
        /\ \E dir \in {RenamedDownload(files, blobUUID, rpc)} :
            \E r \in {verifyCommand(dir, blobUUID)} :
              last' = [op |-> "client.verify", req |-> blobUUID, tamper |-> "renamed",
                       dir |-> dir,
                       err |-> r.err, steps |-> r.steps,
                       computedHash |-> r.computedHash, meta |-> r.meta,
                       payloadBytes |-> r.payloadBytes, sig |-> r.sig]
        /\ UNCHANGED <<inflight, ping, signer, db, receipts, files>>

Next == StoreBlobAct \/ GetSignedBlobAct \/ GetPublicKeyAct

Spec == Init /\ [][Next]_vars

NextClient ==
    ClientPutAct \/ ClientGetPublicKeyAct \/ ClientGetAct \/ ClientVerifyAct
        \/ ClientVerifyRenamedAct

SpecClient == Init /\ [][NextClient]_vars

(***************************************************************************)
(* The storage adapter on its own: any caller of the Storage interface,    *)
(* handing it any record.                                                  *)
(***************************************************************************)
StorageUuidTexts ==
    {UUIDString(u) : u \in UUIDs} \cup {"{" \o UUIDString(1) \o "}", "invalid-uuid"}

StorageBlobs == {Repeat("A", 1), Repeat("B", 1)}

StorageSignatures ==
    {SignPSS(r, PrivateKey(1), cryptoHash, Sum256(<<>>), rsaPSSOptions).sig : r \in Salts}

StorageRecords ==
    {SignedBlobRecord(BlobRecord(t, b, HexEncodeToString(Sum256(b)), FormatTime(0)), sig) :
        t \in StorageUuidTexts, b \in StorageBlobs, sig \in StorageSignatures}

StoreAct ==
    \E record \in StorageRecords, outcome \in DBOutcomes :
      \E r \in {StorageStore(db, record, outcome)} :
        /\ db' = r.db
        /\ last' = [op |-> "store.Store", record |-> record, outcome |-> outcome,
                    err |-> r.err]
        /\ UNCHANGED <<inflight, ping, signer, receipts, files>>

GetByUUIDAct ==
    \E u \in UUIDs, outcome \in DBOutcomes :
      \E r \in {StorageGetByUUID(db, u, outcome)} :
        /\ last' = [op |-> "store.GetByUUID", uuid |-> u, outcome |-> outcome,
                    record |-> r.record, err |-> r.err]
        /\ UNCHANGED <<inflight, ping, signer, db, receipts, files>>

ExistsAct ==
    \E u \in UUIDs, outcome \in DBOutcomes :
      \E r \in {StorageExists(db, u, outcome)} :
        /\ last' = [op |-> "store.Exists", uuid |-> u, outcome |-> outcome,
                    exists |-> r.exists, err |-> r.err]
        /\ UNCHANGED <<inflight, ping, signer, db, receipts, files>>

DeleteAct ==
    \E u \in UUIDs, outcome \in DBOutcomes :
      \E r \in {StorageDelete(db, u, outcome)} :
        /\ db' = r.db
        /\ last' = [op |-> "store.Delete", uuid |-> u, outcome |-> outcome,
                    err |-> r.err]
        /\ UNCHANGED <<inflight, ping, signer, receipts, files>>

NextStorage == StoreAct \/ GetByUUIDAct \/ ExistsAct \/ DeleteAct

SpecStorage == Init /\ [][NextStorage]_vars

(***************************************************************************)
(* The signer on its own: any caller of RSASignerService, in the package   *)
(* (a nil receiver, a struct literal with a key left out) or outside it.   *)
(***************************************************************************)
SignerInputs ==
    {NilSigner, UninitialisedSigner,
     RSASignerService(NilPrivateKey, PublicKeyOf(PrivateKey(1))),
     RSASignerService(PrivateKey(1), NilPublicKey),
     NewRSASignerServiceFromFile(1), NewRSASignerServiceFromFile(2)}

\* the byte strings handed to the signer: none, and two serialised records
Messages ==
    {Marshal(BlobRecord("", EmptyStr, EmptyHex, ""))}
        \cup {Marshal(BlobRecord(UUIDString(1), b, HexEncodeToString(Sum256(b)),
                                 FormatTime(0))) : b \in StorageBlobs}

ValidSignatures ==
    {Sign(NewRSASignerServiceFromFile(k), m, r).sig :
        k \in KeyIds, m \in Messages \ {<<>>}, r \in Salts}

\* the signatures handed to VerifySignature: made by either key over either
\* message, damaged copies of these, and none
SignatureInputs ==
    ValidSignatures \cup {CorruptSignature(sig) : sig \in ValidSignatures}
        \cup {NoSignature}

InitSigner ==
    /\ signer \in SignerInputs
    /\ db = {}
    /\ receipts = NoReceipts
    /\ files = NoFiles
    /\ last = [op |-> "none"]
    /\ ping = StorageReady
    /\ inflight = NoneInFlight

SignAct ==
    \E msg \in Messages, rnd \in RandOutcomes :
      \E r \in {Sign(signer, msg, rnd)} :
        /\ last' = [op |-> "signer.Sign", msg |-> msg, rnd |-> rnd, sig |-> r.sig,
                    err |-> r.err]
        /\ UNCHANGED <<inflight, ping, signer, db, receipts, files>>

VerifySignatureAct ==
    \E msg \in Messages, sig \in SignatureInputs :
      \E err \in {VerifySignature(signer, msg, sig)} :
        /\ last' = [op |-> "signer.VerifySignature", msg |-> msg, sig |-> sig,
                    err |-> err]
        /\ UNCHANGED <<inflight, ping, signer, db, receipts, files>>

ComputeHashAct ==
    \E msg \in Messages :
        /\ last' = [op |-> "signer.ComputeHash", msg |-> msg,
                    hash |-> ComputeHash(signer, msg)]
        /\ UNCHANGED <<inflight, ping, signer, db, receipts, files>>

SignerGetPublicKeyAct ==
    \E r \in {SignerGetPublicKey(signer)} :
        /\ last' = [op |-> "signer.GetPublicKey", PublicKey |-> r.pem, err |-> r.err]
        /\ UNCHANGED <<inflight, ping, signer, db, receipts, files>>

NextSigner == SignAct \/ VerifySignatureAct \/ ComputeHashAct \/ SignerGetPublicKeyAct

SpecSigner == InitSigner /\ [][NextSigner]_vars

\* the service and direct callers of its signer, in one process
NextKeys == Next \/ NextSigner

SpecKeys == Init /\ [][NextKeys]_vars

(***************************************************************************)
(* Process start: NewPostgresStorage with its pingWithRetry loop.          *)
(***************************************************************************)
AllPingArgs ==
    {PingArgs(d, l, i, m) :
        d \in {"", "postgres://"}, l \in BOOLEAN, i \in RetryIntervals, m \in ReadyDurations}

InitPing ==
    /\ signer = NewRSASignerServiceFromFile(1)
    /\ db = {}
    /\ receipts = NoReceipts
    /\ files = NoFiles
    /\ last = [op |-> "none"]
    /\ ping \in {PingState("called", a, 0, 0, FALSE, 0, "none", NoReturn) : a \in AllPingArgs}
    /\ inflight = NoneInFlight

\* NewPostgresStorage up to the call of pingWithRetry, and pingWithRetry up
\* to its select: the arguments are validated, context.WithTimeout starts
\* the timeout and time.NewTicker the ticker
NewPostgresStorageAct ==
    /\ ping.pc = "called"
    /\ ping' =
        IF ping.args.dsn = ""
        THEN [ping EXCEPT !.pc = "returned",
                !.ret = ReturnError(<<"DataSourceName (DNS) parameter cannot be empty">>, <<>>)]
        ELSE IF ping.args.logNil
        THEN [ping EXCEPT !.pc = "returned",
                !.ret = ReturnError(<<"log parameter cannot be nil">>, <<>>)]
        ELSE [ping EXCEPT !.pc = "select",
                !.remaining = ping.args.maxReadyDuration,
                !.untilTick = ping.args.retryInterval]
    /\ UNCHANGED <<signer, db, receipts, files, last, inflight>>

\* one unit of time passes: the timeout runs down, and the ticker puts a tick
\* in its channel every retryInterval (a tick not yet taken is not doubled)
PingTimeAct ==
    /\ ping.pc \in {"select", "probe"}
    /\ ping' = [ping EXCEPT
            !.remaining = IF ping.remaining > 0 THEN ping.remaining - 1 ELSE 0,
            !.untilTick = IF ping.untilTick = 1 THEN ping.args.retryInterval
                          ELSE ping.untilTick - 1,
            !.tick = ping.tick \/ ping.untilTick = 1]
    /\ UNCHANGED <<signer, db, receipts, files, last, inflight>>

\* case <-ctx.Done() is ready
PingSelectDoneReady(p) == p.pc = "select" /\ p.remaining = 0

\* case <-ctx.Done(): pingWithRetry returns the error, NewPostgresStorage logs and wraps it
PingSelectDoneAct ==
    /\ PingSelectDoneReady(ping)
    /\ ping' = [ping EXCEPT !.pc = "returned",
            !.ret = ReturnError(<<"failed to ping database: %w",
                                  "unable to ping database: %w", ctxDeadlineExceeded>>,
                                <<"store: database was not ready">>)]
    /\ UNCHANGED <<signer, db, receipts, files, last, inflight>>

\* case <-ticker.C: the tick is taken and the probe (sql.Open, SELECT NOW()) starts
PingSelectTickAct ==
    /\ ping.pc = "select"
    /\ ping.tick
    /\ ping' = [ping EXCEPT !.pc = "probe", !.tick = FALSE,
            !.attempts = IF ping.attempts < MaxAttempts THEN ping.attempts + 1
                         ELSE ping.attempts]
    /\ UNCHANGED <<signer, db, receipts, files, last, inflight>>

\* a probe that can still succeed when the context's timeout has run out
ProbeResult_IgnoresContext(p, outcome) ==
    IF outcome = "alive" THEN "ok" ELSE "error"

\* db.QueryRowContext(ctx, selectTimeQuery).Scan(&ts): fails when the database
\* does not answer, and when the context is done
ProbeResult(p, outcome) ==
    IF p.remaining = 0 THEN "error"
    ELSE IF outcome = "alive" THEN "ok" ELSE "error"

\* the probe ends: on success pingWithRetry returns the connection and
\* NewPostgresStorage the storage; otherwise the loop goes back to the select
PingProbeAct ==
    /\ ping.pc = "probe"
    /\ \E outcome \in ProbeOutcomes :
        ping' = IF ProbeResult(ping, outcome) = "ok"
                THEN [ping EXCEPT !.pc = "returned", !.probe = "ok", !.ret = ReturnStorage]
                ELSE [ping EXCEPT !.pc = "select", !.probe = "error"]
    /\ UNCHANGED <<signer, db, receipts, files, last, inflight>>

NextPing ==
    NewPostgresStorageAct \/ PingTimeAct \/ PingSelectDoneAct \/ PingSelectTickAct
        \/ PingProbeAct

SpecPing == InitPing /\ [][NextPing]_vars

\* time passes, a started call and a started probe come to an end, and the
\* select, which chooses among its ready cases at random, does not pass over
\* ctx.Done() for ever
SpecPingLive ==
    /\ SpecPing
    /\ WF_vars(NewPostgresStorageAct)
    /\ WF_vars(PingTimeAct)
    /\ WF_vars(PingProbeAct)
    /\ SF_vars(PingSelectDoneAct)

(***************************************************************************)
(* Requests served concurrently.  A handler shares nothing with the other  *)
(* handlers but the table, which it reaches in one statement: StoreBlob    *)
(* computes, draws its identifier and signs, then INSERTs, then returns;   *)
(* GetSignedBlob parses, SELECTs, then returns.  The statements of         *)
(* different goroutines interleave in any order.                           *)
(***************************************************************************)
ConcurrentBlobs == {EmptyStr} \cup StorageBlobs

ConcurrentStoreRequests == {StoreBlobRequest(b) : b \in ConcurrentBlobs}

ConcurrentGetRequests == {GetSignedBlobRequest(UUIDString(u)) : u \in UUIDs}

ConcurrentStoreEnvs == {StoreEnv(u, 0, 1, "ok") : u \in UUIDs}

InitConcurrent ==
    /\ signer = NewRSASignerServiceFromFile(1)
    /\ db = {}
    /\ receipts = NoReceipts
    /\ files = NoFiles
    /\ last = [op |-> "none"]
    /\ ping = StorageReady
    /\ inflight = NoneInFlight

StoreResponded(req, r) ==
    [pc |-> "StoreBlob:responded", req |-> req, Uuid |-> r.Uuid, err |-> r.err]

\* StoreBlob up to its call of Storage.Store (service.go:48-111); a request
\* that fails before has its response then
StoreBlobCallAct ==
    \E t \in Threads, req \in ConcurrentStoreRequests, env \in ConcurrentStoreEnvs :
      \E r \in {StoreBlob(signer, db, req, env.newUUID, env.now, env.rnd, env.outcome)} :
        /\ inflight[t] = Idle
        /\ inflight' = [inflight EXCEPT ![t] =
                IF "store.Store" \in {r.calls[i] : i \in 1..Len(r.calls)}
                THEN [pc |-> "StoreBlob:signed", req |-> req, env |-> env]
                ELSE StoreResponded(req, r)]
        /\ UNCHANGED <<signer, db, receipts, files, last, ping>>

\* the INSERT of Storage.Store, on the table as it is then (service.go:116-123)
StoreBlobInsertAct ==
    \E t \in Threads, outcome \in DBOutcomes :
        /\ inflight[t].pc = "StoreBlob:signed"
        /\ \E r \in {StoreBlob(signer, db, inflight[t].req, inflight[t].env.newUUID,
                               inflight[t].env.now, inflight[t].env.rnd, outcome)} :
            /\ db' = r.db
            /\ inflight' = [inflight EXCEPT ![t] = StoreResponded(inflight[t].req, r)]
        /\ UNCHANGED <<signer, receipts, files, last, ping>>

\* the response of StoreBlob reaches its caller
StoreBlobReturnAct ==
    \E t \in Threads :
        /\ inflight[t].pc = "StoreBlob:responded"
        /\ receipts' = IF inflight[t].err = Nil
                       THEN [u \in DOMAIN receipts \cup {inflight[t].Uuid} |->
                                IF u = inflight[t].Uuid THEN inflight[t].req.Blob
                                ELSE receipts[u]]
                       ELSE receipts
        /\ inflight' = [inflight EXCEPT ![t] = Idle]
        /\ UNCHANGED <<signer, db, files, last, ping>>

\* GetSignedBlob up to and with its SELECT, on the table as it is then
\* (service.go:127-167)
GetSignedBlobSelectAct ==
    \E t \in Threads, req \in ConcurrentGetRequests, outcome \in DBOutcomes :
      \E r \in {GetSignedBlob(signer, db, req, outcome)} :
        /\ inflight[t] = Idle
        /\ inflight' = [inflight EXCEPT ![t] =
                [pc |-> "GetSignedBlob:responded", req |-> req, outcome |-> outcome,
                 err |-> r.err, Payload |-> r.Payload, Signature |-> r.Signature]]
        /\ UNCHANGED <<signer, db, receipts, files, last, ping>>

\* the response of GetSignedBlob reaches its caller
GetSignedBlobReturnAct ==
    \E t \in Threads :
        /\ inflight[t].pc = "GetSignedBlob:responded"
        /\ inflight' = [inflight EXCEPT ![t] = Idle]
        /\ UNCHANGED <<signer, db, receipts, files, last, ping>>

NextConcurrent ==
    StoreBlobCallAct \/ StoreBlobInsertAct \/ StoreBlobReturnAct
        \/ GetSignedBlobSelectAct \/ GetSignedBlobReturnAct

SpecConcurrent == InitConcurrent /\ [][NextConcurrent]_vars

(***************************************************************************)
(* The serialisation on its own.  A BlobRecord is built by a struct        *)
(* literal with keyed fields, written in one order at signing time and for *)
(* storage (Uuid, Blob, Hash, Timestamp), in another for the response of   *)
(* GetSignedBlob (Uuid, Hash, Blob, Timestamp), and again by the verifier. *)
(***************************************************************************)
FieldNames == {"Uuid", "Blob", "Hash", "Timestamp"}

FieldOrders ==
    {o \in [1..4 -> FieldNames] : \A i, j \in 1..4 : i # j => o[i] # o[j]}

ZeroRecord == BlobRecord("", EmptyStr, EmptyHex, "")

\* a message type whose Blob field, when set, also sets Hash from it
BuildRecord_DerivesHash(values, order) ==
    LET set(rec, f) ==
            IF f = "Blob"
            THEN [rec EXCEPT !.Blob = values.Blob,
                             !.Hash = HexEncodeToString(Sum256(values.Blob))]
            ELSE [rec EXCEPT ![f] = values[f]]
    IN  set(set(set(set(ZeroRecord, order[1]), order[2]), order[3]), order[4])

\* &blobv1.BlobRecord{...}: the fields are set one by one, in the order written
BuildRecord(values, order) ==
    LET set(rec, f) == [rec EXCEPT ![f] = values[f]]
    IN  set(set(set(set(ZeroRecord, order[1]), order[2]), order[3]), order[4])

MarshalUuids == {""} \cup {UUIDString(u) : u \in UUIDs}

MarshalBlobs == {EmptyStr} \cup StorageBlobs

MarshalHashes == {EmptyHex} \cup {HexEncodeToString(Sum256(b)) : b \in StorageBlobs}

MarshalTimestamps == {""} \cup {FormatTime(t) : t \in Times}

MarshalValues ==
    {BlobRecord(u, b, h, t) :
        u \in MarshalUuids, b \in MarshalBlobs, h \in MarshalHashes, t \in MarshalTimestamps}

\* the field values of a record and the order in which its literal names them
InitMarshal ==
    /\ signer = NewRSASignerServiceFromFile(1)
    /\ db = {}
    /\ receipts = NoReceipts
    /\ files = NoFiles
    /\ ping = StorageReady
    /\ inflight = NoneInFlight
    /\ last \in {[op |-> "BlobRecord", values |-> v, order |-> o] :
                    v \in MarshalValues, o \in FieldOrders}

\* the record is built and serialised
MarshalAct ==
    /\ last.op = "BlobRecord"
    /\ last' = [op |-> "proto.Marshal", values |-> last.values, order |-> last.order,
                bytes |-> Marshal(BuildRecord(last.values, last.order))]
    /\ UNCHANGED <<inflight, ping, signer, db, receipts, files>>

NextMarshal == MarshalAct

SpecMarshal == InitMarshal /\ [][NextMarshal]_vars

(***************************************************************************)
(* Properties.                                                             *)
(***************************************************************************)
IsGet == last.op = "GetSignedBlob"

IsStore == last.op = "StoreBlob"

IsVerify == last.op = "client.verify"

\* C1: round-trip integrity.  Once StoreBlob(C) has returned id, a
\* GetSignedBlob(id) that reaches the database succeeds, and every successful
\* one returns uuid = id, blob = C with 1 <= |C| <= 262144,
\* hash = hex(sha256(C)) and a signature that VerifySignature accepts over the
\* serialisation of the four returned payload fields.
C1_RoundTrip ==
    (IsGet /\ ~ last.req.isNil /\ last.req.Uuid \in DOMAIN receipts) =>
        LET C == receipts[last.req.Uuid]
        IN  /\ last.outcome = "ok" => last.err = Nil
            /\ last.err = Nil =>
                /\ last.Payload.Uuid = last.req.Uuid
                /\ last.Payload.Blob = C
                /\ 1 <= StrLen(C) /\ StrLen(C) <= maxBlobSize
                /\ last.Payload.Hash = HexEncodeToString(Sum256(C))
                /\ VerifySignature(signer, Marshal(last.Payload), last.Signature) = Nil

C1_Witness ==
    /\ IsGet /\ ~ last.req.isNil /\ last.req.Uuid \in DOMAIN receipts
    /\ last.err = Nil
    /\ StrLen(last.Payload.Blob) = maxBlobSize

\* C2: tamper detection.  For every stored record, replacing exactly one of
\* uuid, blob, hash, timestamp by a different value and re-serialising makes
\* VerifySignature reject the stored signature.
TamperUuids == UuidInputs

TamperBlobs == Blobs \cup {OtherBlob(b) : b \in Blobs}

TamperHashes == {HexEncodeToString(Sum256(b)) : b \in TamperBlobs} \cup {EmptyHex}

TamperTimestamps == {FormatTime(t) : t \in Times \cup {LaterTime}} \cup {""}

RowPayload(r) == BlobRecord(UUIDString(r.uuid), r.blob, r.hash, r.timestamp)

Rejected(p, sig) == VerifySignature(signer, Marshal(p), sig) # Nil

C2_TamperDetection ==
    \A r \in db :
        LET p == RowPayload(r)
        IN  /\ \A u \in TamperUuids \ {p.Uuid} : Rejected([p EXCEPT !.Uuid = u], r.signature)
            /\ \A b \in TamperBlobs \ {p.Blob} : Rejected([p EXCEPT !.Blob = b], r.signature)
            /\ \A h \in TamperHashes \ {p.Hash} : Rejected([p EXCEPT !.Hash = h], r.signature)
            /\ \A t \in TamperTimestamps \ {p.Timestamp} :
                    Rejected([p EXCEPT !.Timestamp = t], r.signature)

C2_Witness ==
    \E r \in db :
        /\ ~ Rejected(RowPayload(r), r.signature)
        /\ Rejected([RowPayload(r) EXCEPT !.Timestamp = FormatTime(LaterTime)],
                    r.signature)
        /\ Rejected([RowPayload(r) EXCEPT !.Blob = OtherBlob(r.blob)], r.signature)

\* C3: the offline verifier reproduces the signing-time serialisation.  When
\* verify runs on the three files the get command wrote for a stored record
\* and on the key file get-public-key wrote, it succeeds: the record it
\* rebuilds serialises to the bytes the stored signature was made over, and
\* the signature file decodes to the stored signature.
VerifyInputs(id) ==
    {BlobFileName(id), SigFileName(id), MetaFileName(id), publicKeyPath}

C3_VerifierReproducesSerialisation ==
    (IsVerify /\ last.tamper = "none" /\ VerifyInputs(last.req) \subseteq DOMAIN last.dir) =>
        /\ last.err = Nil
        /\ \E r \in db :
            /\ UUIDString(r.uuid) = last.req
            /\ last.payloadBytes = Marshal(RowPayload(r))
            /\ Sum256(last.payloadBytes) = r.signature.digest
            /\ last.sig = r.signature

C3_Witness ==
    /\ IsVerify /\ last.tamper = "none"
    /\ VerifyInputs(last.req) \subseteq DOMAIN last.dir
    /\ last.err = Nil
    /\ \E r \in db : last.sig = r.signature /\ StrLen(r.blob) = maxBlobSize

\* C4: verify reports success only if both checks pass.  Whenever verify
\* returns no error, the files it ran on hold content whose hex(sha256) equals
\* the metadata hash and a signature that rsa.VerifyPSS accepts, under the key
\* in the key file, over the serialisation of the record rebuilt from the
\* metadata and the content.
DirMeta(dir, id) == JSONUnmarshal(dir[MetaFileName(id)]).meta

HashCheckPasses(dir, id) ==
    /\ {BlobFileName(id), MetaFileName(id)} \subseteq DOMAIN dir
    /\ dir[MetaFileName(id)].json
    /\ HexEncodeToString(Sum256(dir[BlobFileName(id)])) = DirMeta(dir, id).Hash

SignatureCheckPasses(dir, id) ==
    /\ VerifyInputs(id) \subseteq DOMAIN dir
    /\ dir[MetaFileName(id)].json
    /\ dir[SigFileName(id)].b64
    /\ dir[publicKeyPath].pem
    /\ dir[publicKeyPath].block.Type = "PUBLIC KEY"
    /\ dir[publicKeyPath].block.Bytes.fmt = "PKIX"
    /\ VerifyPSS(dir[publicKeyPath].block.Bytes.key, "SHA256",
                 Sum256(Marshal(BlobRecord(DirMeta(dir, id).UUID,
                                           dir[BlobFileName(id)],
                                           DirMeta(dir, id).Hash,
                                           DirMeta(dir, id).TimeStamp))),
                 dir[SigFileName(id)].sig, rsaPSSOptions) = Nil

C4_SuccessOnlyIfBothChecksPass ==
    IsVerify =>
        (last.err = Nil <=>
            HashCheckPasses(last.dir, last.req) /\ SignatureCheckPasses(last.dir, last.req))

C4_Witness ==
    /\ IsVerify
    /\ HashCheckPasses(last.dir, last.req)
    /\ ~ SignatureCheckPasses(last.dir, last.req)
    /\ publicKeyPath \in DOMAIN last.dir
    /\ last.tamper = "timestamp"
    /\ last.err # Nil

\* C5: the content hash is compared before the signature is checked.  When
\* verify has read and decoded its three files and hex(sha256(content))
\* differs from the metadata hash, it fails with the hash mismatch error, which
\* is not the signature verification error, and it has neither read nor parsed
\* the public key nor called rsa.VerifyPSS.
CryptoSteps ==
    {"os.ReadFile(public-key)", "pem.Decode", "x509.ParsePKIXPublicKey", "rsa.VerifyPSS"}

StepsOf(seq) == {seq[i] : i \in 1..Len(seq)}

InputsDecoded(dir, id) ==
    /\ {BlobFileName(id), SigFileName(id), MetaFileName(id)} \subseteq DOMAIN dir
    /\ dir[MetaFileName(id)].json
    /\ dir[SigFileName(id)].b64

C5_HashComparedBeforeSignature ==
    (IsVerify /\ InputsDecoded(last.dir, last.req)
        /\ ~ HashCheckPasses(last.dir, last.req)) =>
        /\ last.err = <<"hash mismatch!">>
        /\ last.err[1] # "signature verification failed: %v"
        /\ StepsOf(last.steps) \cap CryptoSteps = {}

C5_Witness ==
    /\ IsVerify /\ last.tamper = "content"
    /\ publicKeyPath \in DOMAIN last.dir
    /\ last.err = <<"hash mismatch!">>
    /\ "sha256.Sum256(blob)" \in StepsOf(last.steps)
    /\ "rsa.VerifyPSS" \notin StepsOf(last.steps)

\* C6: the size boundary.  StoreBlob rejects content of more than 262144 bytes
\* with the size validation error and leaves the table as it was; content of
\* exactly 262144 bytes passes validation and, when signing and the INSERT
\* succeed, is stored under the identifier returned.
SizeError == <<"blob content exceeds maximum size">>

StoreStep == last'.op = "StoreBlob" /\ ~ last'.req.isNil

C6_SizeBoundary ==
    [][StoreStep =>
        /\ StrLen(last'.req.Blob) >= 262145 =>
              /\ last'.err = SizeError
              /\ last'.Uuid = ""
              /\ db' = db
        /\ StrLen(last'.req.Blob) = 262144 =>
              /\ last'.err # SizeError
              /\ "signer.ComputeHash" \in StepsOf(last'.calls)
              /\ (/\ signer.privateKey # NilPrivateKey
                  /\ last'.env.rnd # 0
                  /\ last'.env.outcome = "ok"
                  /\ \A r \in db : r.uuid # last'.env.newUUID) =>
                    /\ last'.err = Nil
                    /\ \E r \in db' :
                          /\ db' = db \cup {r}
                          /\ r \notin db
                          /\ UUIDString(r.uuid) = last'.Uuid
                          /\ r.blob = last'.req.Blob
    ]_vars

C6_Witness ==
    /\ IsStore /\ ~ last.req.isNil
    /\ StrLen(last.req.Blob) = 262144
    /\ last.err = Nil
    /\ \E r \in db : UUIDString(r.uuid) = last.Uuid /\ StrLen(r.blob) = 262144

\* C7: StoreBlob with a nil request or empty content returns an error having
\* made none of its calls (no ComputeHash, no uuid.New, no Sign, no
\* Storage.Store), returns no identifier and leaves the table as it was.
WorkCalls == {"signer.ComputeHash", "uuid.New", "signer.Sign", "store.Store"}

C7_EmptyRejectedBeforeAnyWork ==
    [][(last'.op = "StoreBlob" /\ (last'.req.isNil \/ StrLen(last'.req.Blob) = 0)) =>
        /\ last'.err # Nil
        /\ last'.Uuid = ""
        /\ StepsOf(last'.calls) \cap WorkCalls = {}
        /\ db' = db
    ]_vars

C7_Witness ==
    /\ IsStore /\ ~ last.req.isNil
    /\ StrLen(last.req.Blob) = 0
    /\ last.err = <<"blob content cannot be empty">>
    /\ db # {}

\* C8: GetSignedBlob with an empty identifier, or one that is not the text of
\* a UUID, returns an error and has not called Storage.GetByUUID.
WellFormedTexts == UNION {UUIDForms(u) : u \in UUIDs}

WellFormed(s) == s \in WellFormedTexts

C8_InvalidIdNeverReachesStorage ==
    (IsGet /\ ~ last.req.isNil /\ ~ WellFormed(last.req.Uuid)) =>
        /\ last.err # Nil
        /\ "store.GetByUUID" \notin StepsOf(last.calls)

C8_Witness ==
    /\ IsGet /\ ~ last.req.isNil
    /\ last.req.Uuid = "invalid-uuid"
    /\ last.err # Nil
    /\ db # {}

\* C9: NotFound against backend failure.  A GetSignedBlob whose lookup reaches
\* the database returns an error wrapping ErrBlobNotFound exactly when the
\* identifier is well-formed and no row has it; a lookup that fails on the way
\* to the database returns the retrieval error, which does not wrap
\* ErrBlobNotFound, and an absent row is never reported with that error.
Stored(s) == \E r \in db : s \in UUIDForms(r.uuid)

NotFound(err) == ErrorsIs(err, ErrBlobNotFound)

BackendFailure(err) == err # Nil /\ err[1] = "failed to retrieve blob: %w"

C9_NotFoundExactlyWhenAbsent ==
    (IsGet /\ ~ last.req.isNil) =>
        /\ last.outcome = "ok" =>
              /\ NotFound(last.err) <=> (WellFormed(last.req.Uuid) /\ ~ Stored(last.req.Uuid))
              /\ ~ BackendFailure(last.err)
        /\ (last.outcome = "unavailable" /\ WellFormed(last.req.Uuid)) =>
              /\ BackendFailure(last.err)
              /\ ~ NotFound(last.err)
        /\ ~ (NotFound(last.err) /\ BackendFailure(last.err))

C9_Witness ==
    /\ IsGet /\ ~ last.req.isNil
    /\ last.outcome = "ok"
    /\ WellFormed(last.req.Uuid) /\ ~ Stored(last.req.Uuid)
    /\ NotFound(last.err)
    /\ db # {}

\* C10: if Sign fails during StoreBlob (the signer holds no key, or the random
\* source fails), Storage.Store is not called, the table is as it was, and the
\* caller gets the signing error and no identifier.
ValidContent(req) ==
    ~ req.isNil /\ 1 <= StrLen(req.Blob) /\ StrLen(req.Blob) <= maxBlobSize

C10_SignFailureStoresNothing ==
    [][(/\ last'.op = "StoreBlob"
        /\ ValidContent(last'.req)
        /\ signer.privateKey = NilPrivateKey \/ last'.env.rnd = 0) =>
        /\ "signer.Sign" \in StepsOf(last'.calls)
        /\ "store.Store" \notin StepsOf(last'.calls)
        /\ last'.err # Nil
        /\ last'.err[1] = "failed to sign payload: %w"
        /\ last'.Uuid = ""
        /\ db' = db
    ]_vars

C10_Witness ==
    /\ IsStore /\ ValidContent(last.req)
    /\ signer.privateKey # NilPrivateKey
    /\ last.env.rnd = 0
    /\ last.err # Nil
    /\ last.err[1] = "failed to sign payload: %w"
    /\ db # {}

\* C11: a failed write is surfaced and not retried.  Every StoreBlob calls
\* Storage.Store at most once and adds at most one row; when the INSERT fails
\* after a successful Sign (the database is not reached, or the identifier is
\* taken), StoreBlob returns the storage error and no identifier and the table
\* is as it was.
CountOf(seq, x) == Cardinality({i \in 1..Len(seq) : seq[i] = x})

InsertFails(tbl, env) ==
    env.outcome = "unavailable" \/ \E r \in tbl : r.uuid = env.newUUID

C11_StoreFailureNotRetried ==
    [][last'.op = "StoreBlob" =>
        /\ CountOf(last'.calls, "store.Store") <= 1
        /\ db \subseteq db'
        /\ Cardinality(db' \ db) <= 1
        /\ (/\ ValidContent(last'.req)
            /\ signer.privateKey # NilPrivateKey
            /\ last'.env.rnd # 0
            /\ InsertFails(db, last'.env)) =>
              /\ CountOf(last'.calls, "store.Store") = 1
              /\ last'.err # Nil
              /\ last'.err[1] = "failed to store signed record: %w"
              /\ last'.Uuid = ""
              /\ db' = db
    ]_vars

C11_Witness ==
    /\ IsStore /\ ValidContent(last.req)
    /\ last.env.outcome = "unavailable"
    /\ last.err # Nil
    /\ last.err[1] = "failed to store signed record: %w"
    /\ CountOf(last.calls, "store.Store") = 1
    /\ db # {}

\* C12: one record per id, never modified in place.  Under any sequence of
\* Store, GetByUUID, Exists and Delete the table holds at most one row per
\* uuid; a row whose uuid is still present after a step is the same row (a
\* second Store with that id does not overwrite it); and a successful
\* GetByUUID returns the blob, hash, timestamp and signature of that row.
OneRowPerUuid(tbl) == \A r1, r2 \in tbl : r1.uuid = r2.uuid => r1 = r2

C12_OneRecordPerIdNeverModified ==
    [][/\ OneRowPerUuid(db')
       /\ \A r \in db : RowsOf(db', r.uuid) \subseteq {r}
       /\ (last'.op = "store.GetByUUID" /\ last'.err = Nil) =>
            \E r \in db :
                /\ r.uuid = last'.uuid
                /\ last'.record.Payload = RowPayload(r)
                /\ last'.record.Signature = r.signature
    ]_vars

C12_Witness ==
    /\ last.op = "store.Store"
    /\ last.outcome = "ok"
    /\ last.err # Nil
    /\ \E r \in db :
        /\ r.uuid = PgUUIDIn(last.record.Payload.Uuid)
        /\ r.blob # last.record.Payload.Blob
        /\ r.signature # last.record.Signature

\* C13: a Store of a record whose id is already present fails with
\* ErrBlobExists.
C13_StoreExistingIdReportsErrBlobExists ==
    [][(/\ last'.op = "store.Store"
        /\ last'.outcome = "ok"
        /\ RowsOf(db, PgUUIDIn(last'.record.Payload.Uuid)) # {}) =>
            ErrorsIs(last'.err, ErrBlobExists)
    ]_vars

\* C14: when Exists completes without error, it returns true if and only if a
\* row with that id is in the table.
C14_ExistsReflectsPresence ==
    (last.op = "store.Exists" /\ last.err = Nil) =>
        (last.exists <=> RowsOf(db, last.uuid) # {})

\* C15: Delete is idempotent.  A Delete that reaches the database removes the
\* row of a present id and no other row and returns nil; for an id that is not
\* (or no longer) present it leaves the table as it was and returns
\* ErrBlobNotFound.
C15_DeleteIdempotent ==
    [][(last'.op = "store.Delete" /\ last'.outcome = "ok") =>
        IF RowsOf(db, last'.uuid) # {}
        THEN /\ db' = {r \in db : r.uuid # last'.uuid}
             /\ db' # db
             /\ last'.err = Nil
             /\ RowsOf(StorageDelete(db', last'.uuid, "ok").db, last'.uuid) = {}
             /\ StorageDelete(db', last'.uuid, "ok").db = db'
             /\ StorageDelete(db', last'.uuid, "ok").err = <<ErrBlobNotFound>>
        ELSE /\ db' = db
             /\ last'.err = <<ErrBlobNotFound>>
    ]_vars

C15_Witness ==
    /\ last.op = "store.Delete"
    /\ last.outcome = "ok"
    /\ last.err = <<ErrBlobNotFound>>
    /\ db # {}

\* C19: the read path is read-only and pass-through.  GetSignedBlob and
\* GetPublicKey leave the table as it was; a successful GetSignedBlob returns
\* the uuid, blob, hash, timestamp and signature of the row with the parsed
\* id, and has called none of Sign, VerifySignature and ComputeHash.
SignerWorkCalls == {"signer.Sign", "signer.VerifySignature", "signer.ComputeHash"}

ReadOps == {"GetSignedBlob", "GetPublicKey"}

C19_ReadPathPassThrough ==
    [][/\ last'.op \in ReadOps => db' = db
       /\ (last'.op = "GetSignedBlob" /\ last'.err = Nil) =>
            /\ \E r \in db :
                /\ r.uuid = UUIDParse(last'.req.Uuid)
                /\ last'.Payload = RowPayload(r)
                /\ last'.Signature = r.signature
            /\ StepsOf(last'.calls) \cap SignerWorkCalls = {}
    ]_vars

C19_Witness ==
    /\ IsGet /\ ~ last.req.isNil
    /\ last.err = Nil
    /\ last.req.Uuid # last.Payload.Uuid
    /\ \E r \in db : last.Payload = RowPayload(r) /\ last.Signature = r.signature

\* C16: Sign's failures.  Without key material (a nil signer, a nil private
\* key or a nil public key) Sign returns the initialisation error and no
\* signature, also for an empty input (that check comes first); with keys and
\* an empty input it returns the empty-input error and no signature; with keys,
\* a non-empty input and a random source that delivers, it returns a non-empty
\* signature and no error.
IsSign == last.op = "signer.Sign"

NoKeyMaterial(s) ==
    s.isNil \/ s.privateKey = NilPrivateKey \/ s.publicKey = NilPublicKey

C16_SignFailures ==
    IsSign =>
        /\ NoKeyMaterial(signer) =>
              /\ last.err # Nil
              /\ last.err[1] = "failed to sign content: %w"
              /\ SigLen(last.sig) = 0
        /\ (~ NoKeyMaterial(signer) /\ Len(last.msg) = 0) =>
              /\ last.err = <<"blob content cannot be nil or empty">>
              /\ SigLen(last.sig) = 0
        /\ (~ NoKeyMaterial(signer) /\ Len(last.msg) > 0 /\ last.rnd # 0) =>
              /\ last.err = Nil
              /\ SigLen(last.sig) > 0

C16_Witness ==
    /\ IsSign
    /\ ~ signer.isNil
    /\ signer.privateKey = NilPrivateKey
    /\ signer.publicKey # NilPublicKey
    /\ Len(last.msg) = 0
    /\ last.err # Nil
    /\ last.err[1] = "failed to sign content: %w"

\* C17: every signature Sign produces over a non-empty message m verifies
\* with VerifySignature(m, sig) under the same signer, whatever the salt: two
\* signatures over the same m differ and both verify.
IsVerifySignature == last.op = "signer.VerifySignature"

SignaturesOver(s, m) ==
    {Sign(s, m, r).sig : r \in {x \in Salts : Sign(s, m, x).err = Nil}}

C17_SignaturesVerify ==
    (IsVerifySignature /\ Len(last.msg) > 0
        /\ last.sig \in SignaturesOver(signer, last.msg)) =>
        last.err = Nil

C17_Witness ==
    /\ IsVerifySignature /\ Len(last.msg) > 0
    /\ last.sig \in SignaturesOver(signer, last.msg)
    /\ last.err = Nil
    /\ \E sig2 \in SignaturesOver(signer, last.msg) :
        /\ sig2 # last.sig
        /\ VerifySignature(signer, last.msg, sig2) = Nil

\* C18: VerifySignature(m, sig) returns an error when sig was made over
\* another message, was made with another private key, or is a damaged copy of
\* a valid signature; it returns nil only for a signature that the private key
\* of the signer's public key made over exactly m.
KeyHolder(s) == NewRSASignerServiceFromFile(s.publicKey.N)

OtherKeyHolder(s) == NewRSASignerServiceFromFile((s.publicKey.N % 2) + 1)

C18_ForgeriesRejected ==
    (IsVerifySignature /\ ~ NoKeyMaterial(signer)) =>
        /\ (\E m \in Messages \ {last.msg} : last.sig \in SignaturesOver(signer, m)) =>
              last.err # Nil
        /\ (\E m \in Messages : last.sig \in SignaturesOver(OtherKeyHolder(signer), m)) =>
              last.err # Nil
        /\ (\E sig \in ValidSignatures : last.sig = CorruptSignature(sig)) =>
              last.err # Nil
        /\ last.err = Nil =>
              last.sig \in SignaturesOver(KeyHolder(signer), last.msg)

C18_Witness ==
    /\ IsVerifySignature /\ ~ NoKeyMaterial(signer)
    /\ Len(last.msg) > 0
    /\ \E m \in Messages \ {last.msg} : last.sig \in SignaturesOver(signer, m)
    /\ last.err # Nil
    /\ last.err[1] = "signature verification failed using RSASSA-PSS: %w"

\* C20: key material is fixed.  No step of Sign, VerifySignature, ComputeHash,
\* GetPublicKey, StoreBlob or GetSignedBlob changes the signer's private or
\* public key; the public key is the one of the private key; and every
\* GetPublicKey that succeeds, of the signer or of the service, returns the
\* PEM of that public key, the same as the call before it.
PublicKeyOps == {"signer.GetPublicKey", "GetPublicKey"}

PublicKeyPEM(s) == PEMBlock("PUBLIC KEY", MarshalPKIXPublicKey(PublicKeyOf(s.privateKey)))

C20_KeyMaterialFixed ==
    [][/\ signer' = signer
       /\ signer'.publicKey = PublicKeyOf(signer'.privateKey)
       /\ (last'.op \in PublicKeyOps /\ last'.err = Nil) =>
            /\ last'.PublicKey = PublicKeyPEM(signer)
            /\ (last.op \in PublicKeyOps /\ last.err = Nil) =>
                    last'.PublicKey = last.PublicKey
    ]_vars

C20_Witness ==
    /\ last.op = "signer.GetPublicKey"
    /\ last.err = Nil
    /\ last.PublicKey = PublicKeyPEM(signer)
    /\ signer.privateKey # NilPrivateKey
    /\ db # {}

\* C21: no public operation discloses the private key.  What StoreBlob,
\* GetSignedBlob and GetPublicKey of the service and Sign, VerifySignature,
\* GetPublicKey and ComputeHash of the signer return (responses and errors),
\* and the rows written to the table, hold neither the private key nor its
\* PEM encoding nor the private exponent, and are the same whatever the
\* private exponent of the signer's key is.
OtherExponent(priv) == IF priv.D = 11 THEN 12 ELSE 11

WithOtherExponent(s) ==
    [s EXCEPT !.privateKey = [N |-> s.privateKey.N, D |-> OtherExponent(s.privateKey)]]

HasKeys(s) == ~ s.isNil /\ s.privateKey # NilPrivateKey

SignatureFields == {"N", "digest", "hash", "saltLen", "salt"}

NoKeyInSignature(s, sig) ==
    /\ DOMAIN sig = SignatureFields
    /\ sig.salt # s.privateKey.D
    /\ sig.saltLen # s.privateKey.D
    /\ sig.N # s.privateKey.D

NoKeyInPEM(s, pem) ==
    /\ pem # getPrivateKey(s).pem
    /\ pem.Type # "RSA PRIVATE KEY"
    /\ pem.Bytes # MarshalPKCS1PrivateKey(s.privateKey)
    /\ "D" \notin DOMAIN pem.Bytes.key

SignatureOps == {"signer.Sign", "signer.VerifySignature"}

C21_PrivateKeyNotDisclosed ==
    [][HasKeys(signer) =>
        /\ \A r \in db' : NoKeyInSignature(signer, r.signature)
        /\ last'.op = "StoreBlob" =>
            \E r \in {StoreBlob(WithOtherExponent(signer), db, last'.req,
                                last'.env.newUUID, last'.env.now, last'.env.rnd,
                                last'.env.outcome)} :
                /\ r.err = last'.err
                /\ r.Uuid = last'.Uuid
                /\ r.db = db'
        /\ last'.op = "GetSignedBlob" =>
            /\ NoKeyInSignature(signer, last'.Signature)
            /\ \E r \in {GetSignedBlob(WithOtherExponent(signer), db, last'.req,
                                       last'.outcome)} :
                /\ r.err = last'.err
                /\ r.Payload = last'.Payload
                /\ r.Signature = last'.Signature
        /\ last'.op = "GetPublicKey" =>
            /\ NoKeyInPEM(signer, last'.PublicKey)
            /\ \E r \in {GetPublicKey(WithOtherExponent(signer))} :
                r.err = last'.err /\ r.PublicKey = last'.PublicKey
        /\ last'.op = "signer.GetPublicKey" =>
            /\ NoKeyInPEM(signer, last'.PublicKey)
            /\ \E r \in {SignerGetPublicKey(WithOtherExponent(signer))} :
                r.err = last'.err /\ r.pem = last'.PublicKey
        /\ last'.op = "signer.Sign" =>
            /\ NoKeyInSignature(signer, last'.sig)
            /\ \E r \in {Sign(WithOtherExponent(signer), last'.msg, last'.rnd)} :
                r.err = last'.err /\ r.sig = last'.sig
        /\ last'.op = "signer.VerifySignature" =>
            VerifySignature(WithOtherExponent(signer), last'.msg, last'.sig) = last'.err
        /\ last'.op = "signer.ComputeHash" =>
            /\ last'.hash = Sum256(last'.msg)
            /\ ComputeHash(WithOtherExponent(signer), last'.msg) = last'.hash
    ]_vars

C21_Witness ==
    /\ last.op = "GetPublicKey"
    /\ HasKeys(signer)
    /\ last.err = Nil
    /\ NoKeyInPEM(signer, last.PublicKey)
    /\ last.PublicKey.Bytes.key = signer.publicKey
    /\ \E r \in db : r.signature.N = signer.privateKey.N

\* C22: startup readiness is a bounded retry loop.  A probe starts only by
\* taking a tick, and before the deadline no more probes have started than
\* retry intervals have passed; a probe that succeeds makes pingWithRetry
\* return at once and NewPostgresStorage return the storage, and a storage is
\* returned in no other way; once the deadline has expired the call returns
\* the deadline error and no storage; and every call returns in the end.
Elapsed(p) == p.args.maxReadyDuration - p.remaining

PingRunning(p) == p.pc \in {"select", "probe"}

DeadlineError(err) == ErrorsIs(err, ctxDeadlineExceeded)

C22_BoundedRetryLoop ==
    /\ [][/\ ping'.attempts # ping.attempts =>
                /\ ping.tick /\ ~ ping'.tick
                /\ ping.pc = "select" /\ ping'.pc = "probe"
          /\ (PingRunning(ping') /\ ping'.remaining > 0) =>
                ping'.attempts * ping'.args.retryInterval <= Elapsed(ping')
          /\ (ping'.probe = "ok" /\ ping.pc = "probe") =>
                /\ ping'.pc = "returned"
                /\ ping'.ret = ReturnStorage
          /\ (ping'.ret.storage /\ ~ ping.ret.storage) =>
                /\ ping.pc = "probe"
                /\ ping'.probe = "ok"
                /\ ping.remaining > 0
          /\ (PingRunning(ping) /\ ping'.pc = "returned" /\ ping.remaining = 0) =>
                /\ ~ ping'.ret.storage
                /\ DeadlineError(ping'.ret.err)
          /\ (PingRunning(ping) /\ ping'.pc = "returned" /\ ping'.ret.err # Nil) =>
                ping.remaining = 0
         ]_vars
    /\ <>(ping.pc = "returned")

C22_Witness ==
    /\ ping.pc = "returned"
    /\ ping.ret.storage
    /\ ping.probe = "ok"
    /\ ping.attempts = 2
    /\ ping.args.retryInterval = 1
    /\ ping.args.maxReadyDuration = MaxReadyDuration

\* C29: pingWithRetry has probed the database at least once when it gives up
\* with the deadline error.
C29_ProbedBeforeGivingUp ==
    (ping.pc = "returned" /\ DeadlineError(ping.ret.err)) => ping.attempts >= 1

\* C23: concurrent requests do not interfere.  Under every interleaving of
\* the statements of concurrent StoreBlob and GetSignedBlob calls: the
\* identifiers of successful StoreBlob calls are pairwise distinct, also for
\* the same content; the row of each returned identifier holds, and
\* GetSignedBlob returns for it, the content of the request it was returned
\* to; and a GetSignedBlob whose SELECT reaches the database, whatever the
\* stores around it do, gets either not found (no row) or a whole row: uuid,
\* non-empty blob, its hash, its timestamp and a signature that verifies.
StoredOk(c) == c.pc = "StoreBlob:responded" /\ c.err = Nil

GotOk(c) == c.pc = "GetSignedBlob:responded" /\ c.outcome = "ok"

CompleteRecord(c) ==
    /\ c.err = Nil
    /\ c.Payload.Uuid = c.req.Uuid
    /\ StrLen(c.Payload.Blob) > 0
    /\ c.Payload.Hash = HexEncodeToString(Sum256(c.Payload.Blob))
    /\ c.Payload.Timestamp # ""
    /\ VerifySignature(signer, Marshal(c.Payload), c.Signature) = Nil

Retrieves(tbl, id, blob) ==
    /\ \E r \in tbl : UUIDString(r.uuid) = id /\ r.blob = blob
    /\ GetSignedBlob(signer, tbl, GetSignedBlobRequest(id), "ok").err = Nil
    /\ GetSignedBlob(signer, tbl, GetSignedBlobRequest(id), "ok").Payload.Blob = blob

C23_ConcurrentRequestsDoNotInterfere ==
    [][/\ \A t1, t2 \in Threads :
            (t1 # t2 /\ StoredOk(inflight'[t1]) /\ StoredOk(inflight'[t2])) =>
                inflight'[t1].Uuid # inflight'[t2].Uuid
       /\ \A t \in Threads : StoredOk(inflight'[t]) =>
            /\ inflight'[t].Uuid \notin DOMAIN receipts'
            /\ Retrieves(db', inflight'[t].Uuid, inflight'[t].req.Blob)
       /\ \A id \in DOMAIN receipts' : Retrieves(db', id, receipts'[id])
       /\ \A t \in Threads : (inflight[t] = Idle /\ GotOk(inflight'[t])) =>
            /\ \/ /\ NotFound(inflight'[t].err)
                  /\ ~ \E r \in db : UUIDString(r.uuid) = inflight'[t].req.Uuid
               \/ /\ CompleteRecord(inflight'[t])
                  /\ \E r \in db : /\ RowPayload(r) = inflight'[t].Payload
                                   /\ r.signature = inflight'[t].Signature
            /\ inflight'[t].req.Uuid \in DOMAIN receipts =>
                  /\ inflight'[t].err = Nil
                  /\ inflight'[t].Payload.Blob = receipts[inflight'[t].req.Uuid]
    ]_vars

C23_Witness ==
    \E t1, t2 \in Threads :
        /\ StoredOk(inflight[t1])
        /\ GotOk(inflight[t2])
        /\ inflight[t2].req.Uuid = inflight[t1].Uuid
        /\ NotFound(inflight[t2].err)
        /\ \E id \in DOMAIN receipts : receipts[id] = inflight[t1].req.Blob

\* C24: the serialisation is deterministic.  Records with the same uuid, blob,
\* hash and timestamp serialise to the same bytes in whatever order their
\* fields were set: the order of the service at signing and storing time, of
\* the GetSignedBlob response, of the verifier, or any other.
ServiceOrder == <<"Uuid", "Blob", "Hash", "Timestamp">>

ResponseOrder == <<"Uuid", "Hash", "Blob", "Timestamp">>

IsMarshal == last.op = "proto.Marshal"

HashAndVerifySteps == {"sha256.Sum256(blob)", "rsa.VerifyPSS"}

BadMetaFile(dir, id) ==
    MetaFileName(id) \in DOMAIN dir /\ ~ dir[MetaFileName(id)].json

BadSigFile(dir, id) ==
    SigFileName(id) \in DOMAIN dir /\ ~ dir[SigFileName(id)].b64

BadKeyFile(dir) ==
    /\ publicKeyPath \in DOMAIN dir
    /\ \/ ~ dir[publicKeyPath].pem
       \/ dir[publicKeyPath].block.Type # "PUBLIC KEY"
       \/ dir[publicKeyPath].block.Bytes.fmt # "PKIX"
       \/ dir[publicKeyPath].block.Bytes.key = NotRSAKey

C25_ValidationBeforeCryptography ==
    (IsVerify /\ (\/ BadMetaFile(last.dir, last.req)
                  \/ BadSigFile(last.dir, last.req)
                  \/ BadKeyFile(last.dir))) =>
        /\ last.err # Nil
        /\ StepsOf(last.steps) \cap HashAndVerifySteps = {}

\* C26: the logging policy.  A request that fails validation (empty content,
\* content over the limit, an identifier that is not a UUID) or that finds no
\* record leaves no error-level entry in the log of the service or of the
\* storage adapter; a request that fails in the storage backend or in the
\* signer leaves at least one.
ServiceOps == {"StoreBlob", "GetSignedBlob"}

ValidationFailure ==
    \/ /\ IsStore /\ ~ last.req.isNil
       /\ StrLen(last.req.Blob) = 0 \/ StrLen(last.req.Blob) > maxBlobSize
    \/ /\ IsGet /\ ~ last.req.isNil
       /\ ~ WellFormed(last.req.Uuid)

OperationalFailure ==
    /\ last.err # Nil
    /\ last.err[1] \in {"failed to sign payload: %w", "failed to store signed record: %w",
                        "failed to retrieve blob: %w"}

C26_LoggingPolicy ==
    last.op \in ServiceOps =>
        /\ (ValidationFailure \/ NotFound(last.err)) => last.logs = <<>>
        /\ OperationalFailure => last.logs # <<>>

\* C27: the stored-record invariant.  After any sequence of StoreBlob,
\* GetSignedBlob and GetPublicKey requests, failed ones included, every row of
\* the table has content of 1 to 262144 bytes, the hex of the SHA-256 of that
\* content as its hash, a well-formed uuid, a timestamp, and a non-empty
\* signature that VerifySignature accepts over the serialisation of the row's
\* own uuid, blob, hash and timestamp under the service's key.
C27_StoredRecordInvariant ==
    \A r \in db :
        /\ 1 <= StrLen(r.blob) /\ StrLen(r.blob) <= 262144
        /\ r.hash = HexEncodeToString(Sum256(r.blob))
        /\ HexLen(r.hash) = 64
        /\ r.uuid \in UUIDs
        /\ UUIDParse(UUIDString(r.uuid)) = r.uuid
        /\ SigLen(r.signature) > 0
        /\ VerifySignature(signer, Marshal(RowPayload(r)), r.signature) = Nil

C27_Witness ==
    /\ IsStore /\ last.err # Nil
    /\ Cardinality(db) = 2
    /\ \A r \in db : /\ StrLen(r.blob) = maxBlobSize
                     /\ VerifySignature(signer, Marshal(RowPayload(r)), r.signature) = Nil

\* C28: one identifier and one timestamp per StoreBlob call.  A StoreBlob call
\* draws its identifier and reads the clock at most once; the payload it hands
\* to Storage.Store has the uuid, blob, hash and timestamp of the payload whose
\* serialisation it signed, which are the identifier drawn, the content of the
\* request, its hash and the time read; and the uuid it returns is that uuid.
C28_OneIdentifierPerCall ==
    IsStore =>
        /\ CountOf(last.calls, "uuid.New") <= 1
        /\ CountOf(last.calls, "time.Now") <= 1
        /\ "store.Store" \in StepsOf(last.calls) =>
            /\ CountOf(last.calls, "uuid.New") = 1
            /\ CountOf(last.calls, "time.Now") = 1
            /\ Marshal(last.stored.Payload) = last.signed
            /\ last.stored.Payload =
                    BlobRecord(UUIDString(last.env.newUUID), last.req.Blob,
                               HexEncodeToString(Sum256(last.req.Blob)),
                               FormatTime(last.env.now))
            /\ last.stored.Signature.digest = Sum256(last.signed)
        /\ last.err = Nil =>
            /\ "store.Store" \in StepsOf(last.calls)
            /\ last.Uuid = last.stored.Payload.Uuid
            /\ last.Uuid = UUIDString(last.env.newUUID)

C28_Witness ==
    /\ IsStore /\ last.err = Nil
    /\ last.env.newUUID = 2 /\ last.env.now = 1
    /\ last.Uuid = UUIDString(2)
    /\ last.stored.Payload.Timestamp = FormatTime(1)
    /\ Marshal(last.stored.Payload) = last.signed
    /\ Cardinality(db) = 2

\* C30 as stated: verify for identifier U succeeds only if the record it
\* verified is U's, so that files named after U holding a validly signed
\* record whose metadata names another identifier fail verification.
C30_VerifiedRecordIsTheOneNamed ==
    (IsVerify /\ last.err = Nil) => last.meta.UUID = last.req

\* C30, amended: the identifier on the command line only selects the three
\* files.  verify succeeds only if the record rebuilt from the content file and
\* from the uuid, hash and timestamp of the metadata file is a record the
\* service stored, under the uuid of the metadata, with the signature of the
\* signature file; and files named after U that hold the downloaded artifacts
\* of another record V verify successfully under the service's public key.
SignedBy(dir, id) ==
    \E r \in db :
        /\ UUIDString(r.uuid) = DirMeta(dir, id).UUID
        /\ r.blob = dir[BlobFileName(id)]
        /\ r.hash = DirMeta(dir, id).Hash
        /\ r.timestamp = DirMeta(dir, id).TimeStamp
        /\ Base64Encode(r.signature) = dir[SigFileName(id)]

ServiceKeyFile(dir) ==
    /\ publicKeyPath \in DOMAIN dir
    /\ dir[publicKeyPath] = PEMFile(GetPublicKey(signer).PublicKey)

C30_VerifiedRecordIsTheMetadataRecord ==
    IsVerify =>
        /\ last.err = Nil =>
            /\ SignedBy(last.dir, last.req)
            /\ last.meta = DirMeta(last.dir, last.req)
            /\ last.payloadBytes =
                    Marshal(BlobRecord(last.meta.UUID, last.dir[BlobFileName(last.req)],
                                       last.meta.Hash, last.meta.TimeStamp))
        /\ (last.tamper = "renamed" /\ ServiceKeyFile(last.dir)) =>
            /\ last.err = Nil
            /\ last.meta.UUID # last.req

C30_Witness ==
    /\ IsVerify /\ last.tamper = "renamed" /\ last.err = Nil
    /\ last.req = UUIDString(1)
    /\ last.meta.UUID = UUIDString(2)
    /\ "rsa.VerifyPSS" \in StepsOf(last.steps)

====
